---- MODULE Spec2Model ----
(***************************************************************************)
(* Relay of "the street": the session state machine, the world state       *)
(* (users, rooms, presence index, boarding requests, rides), the movement  *)
(* engine and the train tick, as implemented in crates/relay and           *)
(* crates/world.                                                           *)
(*                                                                         *)
(* Granularity: one action per acquisition of the world-state lock (or per *)
(* socket event).  Everything a task does between two acquisitions is      *)
(* local to that task and is folded into the step that follows it.         *)
(*                                                                         *)
(* Representation: a map id is a tuple, <<"street">>, <<"room", side, x>>, *)
(* <<"station", x>> or <<"train", id>>; format!/parse of the textual form  *)
(* are the constructors and the projections of these tuples.  Option::None *)
(* of a string is the string "none".                                       *)
(***************************************************************************)
EXTENDS Integers, Sequences, FiniteSets, TLC

VARIABLES
    next_user_id,            \* ServerState.next_user_id
    users,                   \* ServerState.users: user id -> UserState
    users_by_pubkey,         \* ServerState.users_by_pubkey
    rooms,                   \* ServerState.rooms: room id -> RoomState
    clients,                 \* ServerState.clients: user id -> ClientHandle
    connected_users_by_map,  \* ServerState.connected_users_by_map
    trains,                  \* ServerState.trains
    boarding,                \* ServerState.boarding
    riders,                  \* ServerState.riders
    last_move_ms,            \* ServerState.last_move_ms
    balances,                \* MockWallet.balances
    now,                     \* the wall clock read by now_ms()
    train_state_tick,        \* the tick counter of the train loop
    conn,                    \* per connection: the locals of handle_connection
    out,                     \* the messages enqueued by the last step, in order
    ev,                      \* the event the last step handled: [op, c]
    disk,                    \* users.json and rooms.json, and whether the
                             \* specification follows the saves (tracked)
    saves                    \* the save tasks in flight: [c, todo]

vars == <<next_user_id, users, users_by_pubkey, rooms, clients,
          connected_users_by_map, trains, boarding, riders, last_move_ms,
          balances, now, train_state_tick, conn, out, ev, disk, saves>>

world == <<next_user_id, users, users_by_pubkey, rooms, clients,
           connected_users_by_map, trains, boarding, riders, last_move_ms,
           balances>>

(***************************************************************************)
(* Bounds of the model.                                                    *)
(***************************************************************************)
MaxConns == 2          \* connection slots open at the same time
Reach == 1             \* clients walk at most this far from an entry tile
MaxNow == 120          \* the clock stops advancing here
UsernameFee == 6       \* config.username_fee_xmr, in XMR
RoomPrice == 1         \* config.room_price_xmr, in XMR
FeeBps == 100          \* config.dev_fee.value, with mode = bps
MaxRing == 5           \* ring positions station_passed is applied to: 0..MaxRing
FineStep == 20         \* grain of the clock where moves are timed, in ms
FeeCap == 200          \* clients stop paying once the dev wallet holds this much

Keys == {"k1", "k2"}                   \* signing keys that clients hold
Names == {"alice"}                     \* display names that clients ask for
DtChoices == {4}                       \* seconds between two train ticks
DtLive == {2}                          \* the same where waiting for a train is timed
X25519Inputs == {"none", "xa"}         \* x25519_pubkey of client.auth
Conns == 1..MaxConns

(***************************************************************************)
(* Program constants.                                                      *)
(***************************************************************************)
STREET_HEIGHT == 16
ROOM_WIDTH == 32
ROOM_HEIGHT == 16
STREET_CIRCUMFERENCE_TILES == 4096
STATION_WIDTH == 32
STATION_HEIGHT == 16
TRAIN_WIDTH == 32
TRAIN_HEIGHT == 16
DOOR_SPACING == 6
DOOR_OFFSET == 3
MOVE_INTERVAL_MS == 60
ClockStep == MOVE_INTERVAL_MS          \* granularity of the clock, in ms
TRAIN_STATE_BROADCAST_TICKS == 2
NUM_TRAINS == 4
TRAIN_SPEED == 128
START_BALANCE == 10
ATOMS == 10000         \* balances are counted in units of 1e-4 XMR

TRACK_ROWS == <<STREET_HEIGHT \div 2 - 1, STREET_HEIGHT \div 2>>
STATION_DOOR_Y_TOP == TRACK_ROWS[1] - 1
STATION_DOOR_Y_BOTTOM == TRACK_ROWS[2] + 1
\* monorail::STATION_DOOR_Y is used by move_in_station but its definition is
\* not among the sources; the station-door row above the tracks is taken.
STATION_DOOR_Y == STATION_DOOR_Y_TOP

Dirs == {"Up", "Down", "Left", "Right"}

(***************************************************************************)
(* Finite maps (HashMap).                                                  *)
(***************************************************************************)
Put(f, k, v) == [z \in DOMAIN f \cup {k} |-> IF z = k THEN v ELSE f[z]]
Del(f, k) == [z \in DOMAIN f \ {k} |-> f[z]]
EmptyMap == [z \in {} |-> 0]

Abs(n) == IF n < 0 THEN 0 - n ELSE n

(***************************************************************************)
(* crates/world: doors.rs, monorail.rs, map.rs                             *)
(***************************************************************************)
street_door_side(x, y) ==
    IF y = 0 /\ x % DOOR_SPACING = 0 THEN "north"
    ELSE IF y = STREET_HEIGHT - 1 /\ x % DOOR_SPACING = DOOR_OFFSET THEN "south"
    ELSE "none"

room_id_for_door(side, street_x) == <<side, street_x>>
room_map_id(room_id) == <<"room", room_id[1], room_id[2]>>
parse_room_map_id(map_id) ==
    IF map_id[1] = "room" THEN <<map_id[2], map_id[3]>> ELSE <<>>

room_door_position(side) ==
    <<ROOM_WIDTH \div 2, IF side = "north" THEN ROOM_HEIGHT - 1 ELSE 0>>
room_entry_position(side) ==
    <<ROOM_WIDTH \div 2, IF side = "north" THEN ROOM_HEIGHT - 2 ELSE 1>>
street_entry_position(side, street_x) ==
    <<street_x, IF side = "north" THEN 1 ELSE STREET_HEIGHT - 2>>
room_customizer_position == <<1, 1>>

station_positions ==
    LET quarter == STREET_CIRCUMFERENCE_TILES \div 4
    IN  <<0, quarter, quarter * 2, quarter * 3>>
STATION_LABELS == <<"north", "east", "south", "west">>
station_x_for_label(label) ==
    IF \E i \in 1..4 : STATION_LABELS[i] = label
    THEN station_positions[CHOOSE i \in 1..4 : STATION_LABELS[i] = label]
    ELSE -1
is_station_x(x) ==
    \E i \in 1..4 : station_positions[i] = x % STREET_CIRCUMFERENCE_TILES
station_x_for_coord(x) ==
    IF is_station_x(x) THEN x % STREET_CIRCUMFERENCE_TILES ELSE -1
is_station_door(x, y) ==
    (y = STATION_DOOR_Y_TOP \/ y = STATION_DOOR_Y_BOTTOM) /\ is_station_x(x)
station_map_id(station_x) == <<"station", station_x>>
parse_station_map_id(map_id) == IF map_id[1] = "station" THEN map_id[2] ELSE -1
train_map_id(train_id) == <<"train", train_id>>
parse_train_map_id(map_id) == IF map_id[1] = "train" THEN map_id[2] ELSE -1

street_tile(x, y) ==
    IF is_station_door(x, y) THEN "StationDoor"
    ELSE IF y = 0 \/ y = STREET_HEIGHT - 1
         THEN IF street_door_side(x, y) # "none" THEN "Door" ELSE "Wall"
         ELSE "Floor"

room_tile(x, y, side) ==
    IF <<x, y>> = room_customizer_position THEN "Customizer"
    ELSE IF x = 0 \/ x = ROOM_WIDTH - 1 \/ y = 0 \/ y = ROOM_HEIGHT - 1
         THEN IF <<x, y>> = room_door_position(side) THEN "Door" ELSE "Wall"
         ELSE "Floor"

station_tile(x, y) ==
    IF x = 0 \/ x = STATION_WIDTH - 1 \/ y = 0 \/ y = STATION_HEIGHT - 1
    THEN IF x = STATION_WIDTH \div 2 /\ (y = 0 \/ y = STATION_HEIGHT - 1)
         THEN "Door" ELSE "Wall"
    ELSE "Floor"

station_entry_position == <<STATION_WIDTH \div 2, STATION_HEIGHT - 2>>
station_entry_position_for_street_y(street_y) ==
    <<STATION_WIDTH \div 2,
      IF street_y = STATION_DOOR_Y_TOP THEN 1 ELSE STATION_HEIGHT - 2>>

train_tile(x, y) ==
    IF x = 0 \/ x = TRAIN_WIDTH - 1 \/ y = 0 \/ y = TRAIN_HEIGHT - 1
    THEN "Wall" ELSE "Floor"

(***************************************************************************)
(* crates/world: physics.rs                                                *)
(***************************************************************************)
Pos(m, x, y) == [map_id |-> m, x |-> x, y |-> y]
Blocked == [kind |-> "Blocked", pos |-> Pos(<<"none">>, 0, 0)]
Moved(p) == [kind |-> "Moved", pos |-> p]
Transition(p) == [kind |-> "Transition", pos |-> p]

step(x, y, dir) ==
    CASE dir = "Up" -> <<x, y - 1>>
      [] dir = "Down" -> <<x, y + 1>>
      [] dir = "Left" -> <<x - 1, y>>
      [] dir = "Right" -> <<x + 1, y>>

move_on_street(position, dir) ==
    LET n == step(position.x, position.y, dir)
        nx == n[1]
        ny == n[2]
    IN  IF ny < 0 \/ ny >= STREET_HEIGHT THEN Blocked
        ELSE CASE street_tile(nx, ny) \in {"Wall", "Customizer"} -> Blocked
               [] street_tile(nx, ny) = "Door" ->
                    LET side == street_door_side(nx, ny)
                        e == room_entry_position(side)
                    IN  IF side # "none"
                        THEN Transition(Pos(room_map_id(room_id_for_door(side, nx)),
                                            e[1], e[2]))
                        ELSE Blocked
               [] street_tile(nx, ny) = "StationDoor" ->
                    IF station_x_for_coord(nx) = -1 THEN Blocked
                    ELSE Transition(Pos(station_map_id(station_x_for_coord(nx)),
                                        station_entry_position[1],
                                        station_entry_position[2]))
               [] street_tile(nx, ny) = "Floor" ->
                    Moved(Pos(position.map_id, nx, ny))

move_in_room(position, dir, side, street_x) ==
    LET n == step(position.x, position.y, dir)
        nx == n[1]
        ny == n[2]
    IN  IF nx < 0 \/ nx >= ROOM_WIDTH \/ ny < 0 \/ ny >= ROOM_HEIGHT THEN Blocked
        ELSE CASE room_tile(nx, ny, side) \in {"Wall", "Customizer"} -> Blocked
               [] room_tile(nx, ny, side) = "Door" ->
                    LET s == street_entry_position(side, street_x)
                    IN  Transition(Pos(<<"street">>, s[1], s[2]))
               [] OTHER -> Moved(Pos(position.map_id, nx, ny))

move_in_station(position, dir, station_x) ==
    LET n == step(position.x, position.y, dir)
        nx == n[1]
        ny == n[2]
    IN  IF nx < 0 \/ nx >= STATION_WIDTH \/ ny < 0 \/ ny >= STATION_HEIGHT
        THEN Blocked
        ELSE CASE station_tile(nx, ny) \in {"Wall", "Customizer"} -> Blocked
               [] station_tile(nx, ny) = "Door" ->
                    Transition(Pos(<<"street">>, station_x, STATION_DOOR_Y))
               [] OTHER -> Moved(Pos(position.map_id, nx, ny))

move_in_train(position, dir) ==
    LET n == step(position.x, position.y, dir)
        nx == n[1]
        ny == n[2]
    IN  IF nx < 0 \/ nx >= TRAIN_WIDTH \/ ny < 0 \/ ny >= TRAIN_HEIGHT THEN Blocked
        ELSE IF train_tile(nx, ny) = "Wall" THEN Blocked
        ELSE Moved(Pos(position.map_id, nx, ny))

try_move(position, dir) ==
    IF position.map_id = <<"street">> THEN move_on_street(position, dir)
    ELSE IF parse_room_map_id(position.map_id) # <<>>
         THEN move_in_room(position, dir, parse_room_map_id(position.map_id)[1],
                           parse_room_map_id(position.map_id)[2])
    ELSE IF parse_station_map_id(position.map_id) # -1
         THEN move_in_station(position, dir, parse_station_map_id(position.map_id))
    ELSE IF parse_train_map_id(position.map_id) # -1
         THEN move_in_train(position, dir)
    ELSE Blocked

(***************************************************************************)
(* crates/relay: state.rs                                                  *)
(***************************************************************************)
UserId(n) == "u_" \o ToString(n)
IdNum(uid) == CHOOSE n \in 0..next_user_id : UserId(n) = uid

NoUser == [user_id |-> "none", pubkey |-> "none", display_name |-> "none",
           position |-> Pos(<<"none">>, 0, 0), x25519_pubkey |-> "none"]

\* ServerState::create_user: the user record it inserts and returns
create_user_reusing(pubkey) ==
    [user_id |-> UserId(1), pubkey |-> pubkey,
     display_name |-> "none", position |-> Pos(<<"street">>, 0, 1),
     x25519_pubkey |-> "none"]
create_user(pubkey) ==
    [user_id |-> UserId(next_user_id), pubkey |-> pubkey,
     display_name |-> "none", position |-> Pos(<<"street">>, 0, 1),
     x25519_pubkey |-> "none"]

\* ServerState::get_or_create_room: the room it returns
DefaultRoom(room_id, price_xmr) ==
    [room_id |-> room_id, owner_pubkey |-> "none", price_xmr |-> price_xmr,
     for_sale |-> TRUE, access |-> [mode |-> "open", list |-> <<>>],
     display_name |-> "none", door_color |-> "none"]
get_or_create_room(rs, room_id, price_xmr) ==
    IF room_id \in DOMAIN rs THEN rs[room_id] ELSE DefaultRoom(room_id, price_xmr)
\* ... and the rooms map it leaves behind
rooms_after_get_or_create(rs, room_id, price_xmr) ==
    IF room_id \in DOMAIN rs THEN rs
    ELSE Put(rs, room_id, DefaultRoom(room_id, price_xmr))

add_connected_user(cm, user_id, map_id) ==
    Put(cm, map_id, (IF map_id \in DOMAIN cm THEN cm[map_id] ELSE {}) \cup {user_id})

remove_connected_user(cm, user_id, map_id) ==
    IF map_id \in DOMAIN cm
    THEN IF cm[map_id] \ {user_id} = {}
         THEN Del(cm, map_id)
         ELSE Put(cm, map_id, cm[map_id] \ {user_id})
    ELSE cm

move_connected_user(cm, user_id, from_map, to_map) ==
    IF from_map = to_map THEN cm
    ELSE add_connected_user(remove_connected_user(cm, user_id, from_map),
                            user_id, to_map)

\* init_trains; the direction flag of a train is read by the train loop but is
\* not set by the sources' init_trains, so the directions are a parameter.
init_trains(dirs) ==
    [i \in 1..NUM_TRAINS |->
        [id |-> i - 1,
         x |-> (STREET_CIRCUMFERENCE_TILES \div 4) * (i - 1),
         speed |-> TRAIN_SPEED,
         clockwise |-> dirs[i]]]

(***************************************************************************)
(* Outbound messages.  A message is [to, type, arg]: the connection whose  *)
(* queue it is pushed on, the envelope type and the field of the payload   *)
(* that the properties speak about.                                        *)
(***************************************************************************)
Msg(c, type, arg) == [to |-> c, type |-> type, arg |-> arg]
send_error_as_notice(c, code) == Msg(c, "server.notice", code)
send_error(c, code) == Msg(c, "server.error", code)
send_notice(c, text) == Msg(c, "server.notice", text)

RECURSIVE SortedIds(_)
SortedIds(S) ==
    IF S = {} THEN <<>>
    ELSE LET m == CHOOSE u \in S : \A v \in S : IdNum(u) <= IdNum(v)
         IN  <<m>> \o SortedIds(S \ {m})

\* connected_users_in_map: the ids of the users it returns
connected_users_in_map(us, cm, map_id) ==
    IF map_id \in DOMAIN cm THEN {u \in cm[map_id] : u \in DOMAIN us} ELSE {}

\* refresh_nearby_for_map: the messages it enqueues.  The HashSet is walked
\* in ascending id order here; the order between recipients is immaterial.
refresh_nearby_skip_lone(us, cl, cm, map_id) ==
    LET ids == connected_users_in_map(us, cm, map_id)
        order == SortedIds({u \in ids : u \in DOMAIN cl /\ ids \ {u} # {}})
    IN  [i \in 1..Len(order) |->
            Msg(cl[order[i]].tx, "server.nearby", ids \ {order[i]})]
refresh_nearby_for_map(us, cl, cm, map_id) ==
    LET ids == connected_users_in_map(us, cm, map_id)
        order == SortedIds({u \in ids : u \in DOMAIN cl})
    IN  [i \in 1..Len(order) |->
            Msg(cl[order[i]].tx, "server.nearby", ids \ {order[i]})]

(***************************************************************************)
(* The startup state: ServerState::new over what storage holds.            *)
(***************************************************************************)
PUser(n, key, name, pos) ==
    [user_id |-> UserId(n), pubkey |-> key, display_name |-> name,
     position |-> pos, x25519_pubkey |-> "none"]
PRoom(room_id, owner, mode, list) ==
    [room_id |-> room_id, owner_pubkey |-> owner, price_xmr |-> RoomPrice,
     for_sale |-> FALSE, access |-> [mode |-> mode, list |-> list],
     display_name |-> "none", door_color |-> "none"]

\* What a previous run of the relay can have saved: nothing; the owner of
\* north:0 next to the customizer of its room and a second user at the spawn
\* tile; a user standing in station/0.
PersistedNothing == [users |-> {}, rooms |-> {}]
PersistedOwner ==
    [users |-> {PUser(1, "k1", "none", Pos(<<"room", "north", 0>>, 1, 2)),
                PUser(2, "k2", "none", Pos(<<"street">>, 0, 1))},
     rooms |-> {PRoom(<<"north", 0>>, "k1", "open", <<>>)}]
PersistedRider ==
    [users |-> {PUser(1, "k1", "none", Pos(<<"station", 0>>, 16, 14))},
     rooms |-> {}]

\* The owner of north:0 (k1) in its room, next to the customizer or one tile
\* further; the owner of north:6 (k2, named alice) visiting north:0 and
\* standing next to the customizer there.
PersistedTenants(owner_y) ==
    [users |-> {PUser(1, "k1", "none", Pos(<<"room", "north", 0>>, 1, owner_y)),
                PUser(2, "k2", "alice", Pos(<<"room", "north", 0>>, 2, 1))},
     rooms |-> {PRoom(<<"north", 0>>, "k1", "open", <<>>),
                PRoom(<<"north", 6>>, "k2", "open", <<>>)}]

\* A user saved at the spawn tile, in front of the door of north:0.
PersistedVisitor ==
    [users |-> {PUser(1, "k1", "none", Pos(<<"street">>, 0, 1))}, rooms |-> {}]

NoMsg == [type |-> "none", dir |-> "none", name |-> "none", arg |-> "none",
          mode |-> "none", list |-> <<>>, room_id |-> <<>>,
          scope |-> "none", target |-> "none", enc |-> "none",
          blank |-> "none"]
ClosedConn == [st |-> "closed", user |-> NoUser, pc |-> "read", msg |-> NoMsg]

MaxId(S) == IF S = {} THEN 0
            ELSE CHOOSE n \in 1..Cardinality(S) :
                    /\ \E u \in S : u.user_id = UserId(n)
                    /\ \A u \in S : \E k \in 1..n : u.user_id = UserId(k)

(***************************************************************************)
(* crates/relay: server.rs, handle_connection before authentication        *)
(***************************************************************************)
Ev(op, c) == [op |-> op, c |-> c]
SetConn(c, r) == conn' = [conn EXCEPT ![c] = r]
LiveConn(c, user) == [st |-> "live", user |-> user, pc |-> "read", msg |-> NoMsg]

\* accept: a new connection takes a slot that no session handle refers to;
\* the relay sends server.hello with a fresh challenge.
Accept(c) ==
    /\ conn[c].st = "closed"
    /\ \A u \in DOMAIN clients : clients[u].tx # c
    /\ SetConn(c, [ClosedConn EXCEPT !.st = "preauth"])
    /\ out' = <<Msg(c, "server.hello", "challenge")>>
    /\ ev' = Ev("accept", c)
    /\ UNCHANGED <<world, now, train_state_tick, disk, saves>>

\* The socket closes, a read fails, or the first frame is not an envelope or
\* its payload is not a ClientAuth: `?` leaves handle_connection.
PreAuthAbort(c) ==
    /\ conn[c].st = "preauth"
    /\ SetConn(c, ClosedConn)
    /\ out' = <<>>
    /\ ev' = Ev("preauth_abort", c)
    /\ UNCHANGED <<world, now, train_state_tick, disk, saves>>

\* The first message is not client.auth.
AuthWrongType(c) ==
    /\ conn[c].st = "preauth"
    /\ SetConn(c, ClosedConn)
    /\ out' = <<send_error(c, "auth_failed")>>
    /\ ev' = Ev("auth_wrong_type", c)
    /\ UNCHANGED <<world, now, train_state_tick, disk, saves>>

\* client.auth whose pubkey decode_verifying_key rejects: `?` returns the
\* error from handle_connection.
AuthBadPubkey(c) ==
    /\ conn[c].st = "preauth"
    /\ SetConn(c, ClosedConn)
    /\ out' = <<>>
    /\ ev' = Ev("auth_bad_pubkey", c)
    /\ UNCHANGED <<world, now, train_state_tick, disk, saves>>

\* client.auth whose challenge signature verify_challenge rejects.
AuthBadChallenge(c) ==
    /\ conn[c].st = "preauth"
    /\ SetConn(c, ClosedConn)
    /\ out' = <<send_error(c, "auth_failed")>>
    /\ ev' = Ev("auth_bad_challenge", c)
    /\ UNCHANGED <<world, now, train_state_tick, disk, saves>>

\* The guard of the already_connected branch.
AlreadyConnected_off(cl, user_id) == FALSE
AlreadyConnected(cl, user_id) == user_id \in DOMAIN cl

\* client.auth with a valid challenge signature under `key`.
\* The key-exchange key of a client.auth, when it carries one, replaces the
\* stored one (server.rs:154-159).
offer_x25519_respawn(found, x25519) ==
    [found EXCEPT !.x25519_pubkey = x25519, !.position = create_user("none").position]
offer_x25519(found, x25519) ==
    IF x25519 # "none" THEN [found EXCEPT !.x25519_pubkey = x25519] ELSE found

Auth(c, key, x25519) ==
    /\ conn[c].st = "preauth"
    /\ LET known == key \in DOMAIN users_by_pubkey
                    /\ users_by_pubkey[key] \in DOMAIN users
           created == ~known
           found == IF known THEN users[users_by_pubkey[key]] ELSE create_user(key)
           user == offer_x25519(found, x25519)
           us == Put(users, user.user_id, user)
       IN  /\ users' = us
           /\ users_by_pubkey' = IF created THEN Put(users_by_pubkey, key, user.user_id)
                                 ELSE users_by_pubkey
           /\ next_user_id' = IF created THEN next_user_id + 1 ELSE next_user_id
           /\ balances' = IF key \notin DOMAIN users_by_pubkey
                          THEN Put(balances, key,
                                   (IF key \in DOMAIN balances THEN balances[key] ELSE 0)
                                   + START_BALANCE * ATOMS)
                          ELSE balances
           /\ IF AlreadyConnected(clients, user.user_id)
              THEN /\ SetConn(c, ClosedConn)
                   /\ out' = <<send_error(c, "already_connected")>>
                   /\ ev' = Ev("auth_rejected", c)
                   /\ UNCHANGED <<clients, connected_users_by_map>>
              ELSE LET cl == Put(clients, user.user_id,
                                 [user_id |-> user.user_id, pubkey |-> user.pubkey,
                                  tx |-> c])
                       cm == add_connected_user(connected_users_by_map,
                                                user.user_id, user.position.map_id)
                   IN  /\ clients' = cl
                       /\ connected_users_by_map' = cm
                       /\ SetConn(c, LiveConn(c, user))
                       /\ out' = <<Msg(c, "server.welcome", user.user_id),
                                   Msg(c, "server.train_state", "snapshot")>>
                                 \o refresh_nearby_for_map(us, cl, cm,
                                                           user.position.map_id)
                       /\ ev' = Ev("auth_ok", c)
    /\ UNCHANGED <<rooms, trains, boarding, riders, last_move_ms, now,
                   train_state_tick, disk, saves>>

(***************************************************************************)
(* handle_connection after authentication: leaving the read loop           *)
(***************************************************************************)
\* Storage::save_users_async and save_rooms_async: the snapshot taken under
\* the lock is handed to a blocking task, which writes the file after the
\* lock is released; the handler awaits it.  A task holds the saves its
\* handler makes one after the other; c is the connection that waits for
\* it, 0 when the connection is over.
SaveOf(file, snapshot) == [file |-> file, snapshot |-> snapshot]
spawn_save(c, todo) ==
    IF disk.tracked THEN saves \cup {[c |-> c, todo |-> todo]} ELSE saves

\* save_json: the file is replaced by the snapshot; the task goes on to its
\* next save or ends.
SaveDone(t) ==
    /\ t \in saves
    /\ disk' = [disk EXCEPT ![Head(t.todo).file] = Head(t.todo).snapshot]
    /\ saves' = (saves \ {t})
                 \cup (IF Len(t.todo) > 1 THEN {[t EXCEPT !.todo = Tail(t.todo)]}
                       ELSE {})
    /\ out' = <<>>
    /\ ev' = Ev("saved", t.c)
    /\ UNCHANGED <<world, now, train_state_tick, conn>>

\* The handler of connection c awaits a save.
Saving(c) == \E t \in saves : t.c = c

\* The map the cleanup removes the user from (server.rs:265).
CleanupMap(c) == conn[c].user.position.map_id

\* ws_read.next() returns None: the code after the loop runs.
Disconnect(c) ==
    /\ conn[c].st = "live" /\ conn[c].pc = "read"
    /\ LET uid == conn[c].user.user_id
           map_id == CleanupMap(c)
           cl == Del(clients, uid)
           cm == remove_connected_user(connected_users_by_map, uid, map_id)
       IN  /\ clients' = cl
           /\ connected_users_by_map' = cm
           /\ boarding' = Del(boarding, uid)
           /\ riders' = Del(riders, uid)
           /\ out' = refresh_nearby_for_map(users, cl, cm, map_id)
    /\ SetConn(c, ClosedConn)
    /\ ev' = Ev("disconnect", c)
    /\ UNCHANGED <<next_user_id, users, users_by_pubkey, rooms, trains,
                   last_move_ms, balances, now, train_state_tick, disk>>
    /\ saves' = spawn_save(0, <<SaveOf("users", users), SaveOf("rooms", rooms)>>)

\* What `?` on a failed read or decode does to the connection: it returns
\* from handle_connection, past the code after the loop.
ErrReturn(c) == SetConn(c, ClosedConn)

\* ws_read.next() yields an error, or a text frame that is not an Envelope.
ReadError(c) ==
    /\ conn[c].st = "live" /\ conn[c].pc = "read"
    /\ ErrReturn(c)
    /\ out' = <<>>
    /\ ev' = Ev("read_error", c)
    /\ UNCHANGED <<world, now, train_state_tick, disk, saves>>

(***************************************************************************)
(* handle_connection after authentication: one inbound envelope            *)
(***************************************************************************)
\* str::starts_with("client.") on the message types of the model
StartsWithClient(message_type) ==
    message_type \in {"client.auth", "client.heartbeat", "client.move",
                      "client.chat", "client.command",
                      "client.room_access_update", "client.room_key",
                      "client.bogus"}

requires_signature(message_type) ==
    IF message_type \in {"client.auth", "client.heartbeat"} THEN FALSE
    ELSE StartsWithClient(message_type)

\* verify_envelope on the four shapes a `sig` field can have: absent; not
\* base64 or not 64 bytes; 64 bytes that do not verify; a valid signature.
\* The result is "err" where the function returns Err.
verify_envelope(sig) ==
    CASE sig = "missing" -> "false"
      [] sig = "malformed" -> "err"
      [] sig = "wrong" -> "false"
      [] sig = "valid" -> "true"

SigKinds == {"missing", "malformed", "wrong", "valid"}

\* The tiles the transitions and the spawn put a user on.
IsAnchor(map_id, x, y) ==
    CASE map_id[1] = "street" ->
            \/ y = 1 /\ x % DOOR_SPACING = 0
            \/ y = STREET_HEIGHT - 2 /\ x % DOOR_SPACING = DOOR_OFFSET
            \/ y = STATION_DOOR_Y /\ is_station_x(x)
      [] map_id[1] = "room" ->
            \/ <<x, y>> = room_entry_position(map_id[2])
            \/ Abs(x - room_customizer_position[1])
                 + Abs(y - room_customizer_position[2]) = 1
      [] map_id[1] = "station" ->
            x = STATION_WIDTH \div 2 /\ y \in {1, STATION_HEIGHT - 2}
      [] map_id[1] = "train" ->
            x = TRAIN_WIDTH \div 2 /\ y = TRAIN_HEIGHT \div 2
      [] OTHER -> FALSE

\* Clients only send moves that keep them within Reach of such a tile.
InWindow(p) ==
    \E dx \in (0 - Reach)..Reach, dy \in (0 - Reach)..Reach :
        Abs(dx) + Abs(dy) <= Reach /\ IsAnchor(p.map_id, p.x + dx, p.y + dy)

StationArgs == {"east", "nowhere"}
AccessModes == {"open", "whitelist", "blacklist"}
AccessLists == {<<>>, <<"k2">>}
RoomIdInputs == {<<"north", 0>>}

LiveMsgs ==
    {[NoMsg EXCEPT !.type = "client.move", !.dir = d] : d \in Dirs}
    \cup {[NoMsg EXCEPT !.type = "client.command", !.name = n, !.arg = a] :
            n \in {"board", "depart"}, a \in StationArgs}
    \cup {[NoMsg EXCEPT !.type = "client.command", !.name = "claim_name", !.arg = a] :
            a \in Names \cup {"none"}}
    \cup {[NoMsg EXCEPT !.type = "client.command", !.name = "bogus"]}
    \cup {[NoMsg EXCEPT !.type = "client.room_access_update", !.room_id = r,
                        !.mode = m, !.list = l] :
            r \in RoomIdInputs, m \in AccessModes, l \in AccessLists}
    \cup {[NoMsg EXCEPT !.type = t] :
            t \in {"client.heartbeat", "client.auth", "client.bogus",
                   "server.bogus"}}

\* The handler a decoded message is dispatched to, as the pc of the task.
Dispatch(m) ==
    CASE m.type = "client.move" -> "move_rate"
      [] m.type = "client.command" /\ m.name = "board" -> "board"
      [] m.type = "client.command" /\ m.name = "depart" -> "depart"
      [] m.type = "client.command" /\ m.name = "claim_name" -> "claim_name"
      [] m.type = "client.command" /\ m.name = "access" -> "access"
      [] m.type = "client.command" /\ m.name = "room_name" -> "room_name"
      [] m.type = "client.command" /\ m.name = "door_color" -> "door_color"
      [] m.type = "client.room_access_update" -> "room_access"
      [] m.type = "client.command" /\ m.name = "buy" -> "buy"
      [] m.type = "client.command" /\ m.name = "pay" -> "pay"
      [] m.type = "client.command" /\ m.name = "faucet" -> "faucet"
      [] m.type = "client.chat" -> "chat"
      [] m.type = "client.room_key" -> "room_key"
      [] OTHER -> "read"

\* The reply of the arms of the dispatch that take no lock.
ImmediateReply(c, m) ==
    CASE m.type = "client.heartbeat" -> <<send_notice(c, "pong")>>
      [] m.type = "client.command" /\ Dispatch(m) = "read" ->
            <<send_error(c, "invalid_command")>>
      [] m.type \in {"client.auth", "client.bogus", "server.bogus"} ->
            <<send_error(c, "invalid_command")>>
      [] OTHER -> <<>>

\* Lines 203-261 up to the call of the handler: reload the user snapshot
\* under the read lock, check the signature, decode the payload.
Recv(c, m, sig, payload_ok) ==
    /\ conn[c].st = "live" /\ conn[c].pc = "read"
    /\ LET uid == conn[c].user.user_id
           user == IF uid \in DOMAIN users THEN users[uid] ELSE conn[c].user
           v == IF requires_signature(m.type) THEN verify_envelope(sig) ELSE "true"
       IN  /\ m.type = "client.move" /\ try_move(user.position, m.dir).kind = "Moved"
                => InWindow(try_move(user.position, m.dir).pos)
           /\ ~requires_signature(m.type) => sig = "valid"
           /\ m.type \notin {"client.move", "client.command",
                             "client.room_access_update"} => payload_ok
           /\ CASE v = "err" ->
                    /\ ErrReturn(c)
                    /\ out' = <<>>
                    /\ ev' = Ev("sig_error", c)
                [] v = "false" ->
                    /\ SetConn(c, [conn[c] EXCEPT !.user = user])
                    /\ out' = <<send_error(c, "invalid_signature")>>
                    /\ ev' = Ev("sig_invalid", c)
                [] v = "true" /\ ~payload_ok ->
                    /\ ErrReturn(c)
                    /\ out' = <<>>
                    /\ ev' = Ev("payload_error", c)
                [] OTHER ->
                    /\ SetConn(c, [conn[c] EXCEPT
                            !.user = user,
                            !.pc = Dispatch(m),
                            !.msg = IF Dispatch(m) = "read" THEN NoMsg ELSE m])
                    /\ out' = ImmediateReply(c, m)
                    /\ ev' = Ev("recv", c)
    /\ UNCHANGED <<world, now, train_state_tick, disk, saves>>

(***************************************************************************)
(* handle_move                                                             *)
(***************************************************************************)
Back(c) == [conn[c] EXCEPT !.pc = "read", !.msg = NoMsg]

\* The guard of the silent drop (server.rs:358).
RateLimited_never(t, last) == FALSE
RateLimited(t, last) == t - last < MOVE_INTERVAL_MS

\* First critical section: now_ms() and the rate limit.  try_move on the
\* task's snapshot follows; a Blocked outcome is answered without a second
\* critical section.
MoveRate(c) ==
    /\ conn[c].st = "live" /\ conn[c].pc = "move_rate"
    /\ LET user == conn[c].user
           uid == user.user_id
           t == now
           last == IF uid \in DOMAIN last_move_ms THEN last_move_ms[uid] ELSE 0
           outcome == try_move(user.position, conn[c].msg.dir)
       IN  IF RateLimited(t, last)
           THEN /\ SetConn(c, Back(c))
                /\ out' = <<>>
                /\ ev' = Ev("move_dropped", c)
                /\ UNCHANGED last_move_ms
           ELSE /\ last_move_ms' = Put(last_move_ms, uid, t)
                /\ IF outcome.kind = "Blocked"
                   THEN /\ SetConn(c, Back(c))
                        /\ out' = <<send_error(c, "move_blocked")>>
                        /\ ev' = Ev("move_blocked", c)
                   ELSE /\ SetConn(c, [conn[c] EXCEPT !.pc = "move_apply"])
                        /\ out' = <<>>
                        /\ ev' = Ev("move_stamped", c)
    /\ UNCHANGED <<next_user_id, users, users_by_pubkey, rooms, clients,
                   connected_users_by_map, trains, boarding, riders, balances,
                   now, train_state_tick, disk, saves>>

room_access_allowed_any(room, pubkey) == TRUE
room_access_allowed(room, pubkey) ==
    IF room.owner_pubkey = pubkey THEN TRUE
    ELSE CASE room.access.mode = "open" -> TRUE
           [] room.access.mode = "whitelist" ->
                \E i \in 1..Len(room.access.list) : room.access.list[i] = pubkey
           [] room.access.mode = "blacklist" ->
                ~\E i \in 1..Len(room.access.list) : room.access.list[i] = pubkey

\* The map a transition takes the user out of in the presence index
\* (prev_map, server.rs:364).
PrevMap(c) == conn[c].user.position.map_id

SetPosition(us, uid, pos) ==
    IF uid \in DOMAIN us THEN [us EXCEPT ![uid].position = pos] ELSE us

\* The test under which a transition removes the user's BoardingRequest
\* (server.rs:408, 431).
LeavesStation_never(map_id) == FALSE
LeavesStation(map_id) == map_id[1] # "station"

\* Second critical section of handle_move: the Moved and Transition arms.
MoveApply(c) ==
    /\ conn[c].st = "live" /\ conn[c].pc = "move_apply"
    /\ LET user == conn[c].user
           uid == user.user_id
           prev_map == PrevMap(c)
           outcome == try_move(user.position, conn[c].msg.dir)
           pos == outcome.pos
           moved == [Back(c) EXCEPT !.user.position = pos]
           us == SetPosition(users, uid, pos)
           bd == IF LeavesStation(pos.map_id) THEN Del(boarding, uid) ELSE boarding
           cm == move_connected_user(connected_users_by_map, uid, prev_map, pos.map_id)
       IN  CASE outcome.kind = "Moved" ->
                  /\ users' = us
                  /\ SetConn(c, moved)
                  /\ out' = <<Msg(c, "server.state", pos)>>
                            \o refresh_nearby_for_map(us, clients,
                                    connected_users_by_map, pos.map_id)
                  /\ ev' = Ev("moved", c)
                  /\ UNCHANGED <<rooms, connected_users_by_map, boarding>>
             [] outcome.kind = "Transition" /\ parse_room_map_id(pos.map_id) # <<>> ->
                  LET rid == room_id_for_door(parse_room_map_id(pos.map_id)[1],
                                              parse_room_map_id(pos.map_id)[2])
                      room == get_or_create_room(rooms, rid, RoomPrice)
                  IN  /\ rooms' = rooms_after_get_or_create(rooms, rid, RoomPrice)
                      /\ IF ~room_access_allowed(room, user.pubkey)
                         THEN /\ SetConn(c, Back(c))
                              /\ out' = <<send_error(c, "room_access_denied")>>
                              /\ ev' = Ev("door_denied", c)
                              /\ UNCHANGED <<users, connected_users_by_map, boarding>>
                         ELSE /\ users' = us
                              /\ boarding' = bd
                              /\ connected_users_by_map' = cm
                              /\ SetConn(c, moved)
                              /\ out' = <<Msg(c, "server.map_change", pos.map_id),
                                          Msg(c, "server.room_info", rid)>>
                                        \o refresh_nearby_for_map(us, clients, cm, prev_map)
                                        \o refresh_nearby_for_map(us, clients, cm, pos.map_id)
                              /\ ev' = Ev("door_entered", c)
             [] OTHER ->
                  /\ users' = us
                  /\ boarding' = bd
                  /\ connected_users_by_map' = cm
                  /\ SetConn(c, moved)
                  /\ out' = <<Msg(c, "server.map_change", pos.map_id)>>
                            \o refresh_nearby_for_map(us, clients, cm, prev_map)
                            \o refresh_nearby_for_map(us, clients, cm, pos.map_id)
                  /\ ev' = Ev("transition", c)
                  /\ UNCHANGED rooms
    /\ UNCHANGED <<next_user_id, users_by_pubkey, clients, trains, riders,
                   last_move_ms, balances, now, train_state_tick, disk>>
    /\ saves' = IF ev'.op = "door_entered"
                THEN spawn_save(c, <<SaveOf("rooms", rooms')>>) ELSE saves

(***************************************************************************)
(* handle_board, handle_depart                                             *)
(***************************************************************************)
\* str::parse::<i64> on the argument strings of the model; -1 stands for None
ParseI64(a) ==
    CASE a = "0" -> 0
      [] a = "1024" -> 1024
      [] a = "2048" -> 2048
      [] a = "3072" -> 3072
      [] OTHER -> -1

parse_station_arg(a) ==
    IF a = "none" THEN -1
    ELSE IF station_x_for_label(a) # -1 THEN station_x_for_label(a)
    ELSE IF \E i \in 1..4 : station_positions[i] = ParseI64(a) THEN ParseI64(a)
    ELSE -1

\* The guard under which handle_board refuses to insert a request
\* (server.rs:1201).
AlreadyRiding_off(rd, uid) == FALSE
AlreadyRiding(rd, uid) == uid \in DOMAIN rd

Board(c) ==
    /\ conn[c].st = "live" /\ conn[c].pc = "board"
    /\ LET user == conn[c].user
           uid == user.user_id
           station_x == parse_station_map_id(user.position.map_id)
           destination == parse_station_arg(conn[c].msg.arg)
       IN  IF station_x = -1 \/ destination = -1 \/ destination = station_x
           THEN /\ out' = <<send_error(c, "invalid_command")>>
                /\ ev' = Ev("board_invalid", c)
                /\ UNCHANGED boarding
           ELSE IF AlreadyRiding(riders, uid)
           THEN /\ out' = <<send_error(c, "invalid_command")>>
                /\ ev' = Ev("board_riding", c)
                /\ UNCHANGED boarding
           ELSE /\ boarding' = Put(boarding, uid,
                        [station_x |-> station_x, destination_x |-> destination])
                /\ out' = <<send_notice(c, "waiting for train")>>
                /\ ev' = Ev("board", c)
    /\ SetConn(c, Back(c))
    /\ UNCHANGED <<next_user_id, users, users_by_pubkey, rooms, clients,
                   connected_users_by_map, trains, riders, last_move_ms,
                   balances, now, train_state_tick, disk, saves>>

Depart(c) ==
    /\ conn[c].st = "live" /\ conn[c].pc = "depart"
    /\ LET user == conn[c].user
           uid == user.user_id
           destination == parse_station_arg(conn[c].msg.arg)
       IN  IF parse_train_map_id(user.position.map_id) = -1 \/ destination = -1
           THEN /\ out' = <<send_error(c, "invalid_command")>>
                /\ ev' = Ev("depart_invalid", c)
                /\ UNCHANGED riders
           ELSE IF uid \in DOMAIN riders
           THEN /\ riders' = [riders EXCEPT ![uid].destination_x = destination]
                /\ out' = <<send_notice(c, "destination updated")>>
                /\ ev' = Ev("depart", c)
           ELSE /\ out' = <<send_error(c, "invalid_command")>>
                /\ ev' = Ev("depart_not_riding", c)
                /\ UNCHANGED riders
    /\ SetConn(c, Back(c))
    /\ UNCHANGED <<next_user_id, users, users_by_pubkey, rooms, clients,
                   connected_users_by_map, trains, boarding, last_move_ms,
                   balances, now, train_state_tick, disk, saves>>

(***************************************************************************)
(* handle_claim_name, with compute_fee, wallet_send and MockWallet::send   *)
(***************************************************************************)
DevWallet == "dev"

\* compute_fee in bps mode, on amounts counted in units of 1e-4 XMR.  The
\* amounts of the model are whole XMR, so the fee is a whole number of units
\* and the {:.8} formatting does not round.
compute_fee_percent(amount) == (amount * FeeBps) \div 100
compute_fee(amount) == (amount * FeeBps) \div 10000

Balance(b, k) == IF k \in DOMAIN b THEN b[k] ELSE 0

wallet_send_overdraft(b, from, to, amount, fee) ==
    LET b1 == Put(b, from, Balance(b, from) - (amount + fee))
    IN  [ok |-> TRUE, balances |-> Put(b1, to, Balance(b1, to) + amount)]
\* MockWallet::send: [ok, balances]
wallet_send(b, from, to, amount, fee) ==
    LET total == amount + fee
        b1 == Put(b, from, Balance(b, from) - total)
        b2 == Put(b1, to, Balance(b1, to) + amount)
    IN  IF Balance(b, from) < total THEN [ok |-> FALSE, balances |-> b]
        ELSE [ok |-> TRUE, balances |-> b2]

\* The test that rejects a name (server.rs:887-890).
NameTaken_off(us, name) == FALSE
NameTaken(us, name) == \E u \in DOMAIN us : us[u].display_name = name

ClaimName(c) ==
    /\ conn[c].st = "live" /\ conn[c].pc = "claim_name"
    /\ LET user == conn[c].user
           uid == user.user_id
           name == conn[c].msg.arg
           fee == compute_fee(UsernameFee * ATOMS)
           s1 == wallet_send(balances, user.pubkey, DevWallet, UsernameFee * ATOMS, 0)
           s2 == wallet_send(s1.balances, user.pubkey, DevWallet, fee, 0)
       IN  IF name = "none"
           THEN /\ out' = <<send_error(c, "invalid_command")>>
                /\ ev' = Ev("claim_usage", c)
                /\ SetConn(c, Back(c))
                /\ UNCHANGED <<users, balances>>
           ELSE IF NameTaken(users, name)
           THEN /\ out' = <<send_error(c, "invalid_command")>>
                /\ ev' = Ev("claim_taken", c)
                /\ SetConn(c, Back(c))
                /\ UNCHANGED <<users, balances>>
           ELSE IF ~s1.ok
           THEN /\ out' = <<send_error(c, "insufficient_funds")>>
                /\ ev' = Ev("claim_unpaid", c)
                /\ SetConn(c, Back(c))
                /\ UNCHANGED <<users, balances>>
           ELSE IF ~s2.ok
           THEN /\ out' = <<send_error(c, "insufficient_funds")>>
                /\ ev' = Ev("claim_fee_unpaid", c)
                /\ SetConn(c, Back(c))
                /\ balances' = s1.balances
                /\ UNCHANGED users
           ELSE /\ users' = IF uid \in DOMAIN users
                            THEN [users EXCEPT ![uid].display_name = name]
                            ELSE users
                /\ balances' = s2.balances
                /\ SetConn(c, [Back(c) EXCEPT !.user.display_name = name])
                /\ out' = <<send_notice(c, "name updated"),
                            send_notice(c, "balance: "
                                \o ToString(Balance(s2.balances, user.pubkey)))>>
                /\ ev' = Ev("claim", c)
    /\ UNCHANGED <<next_user_id, users_by_pubkey, rooms, clients,
                   connected_users_by_map, trains, boarding, riders,
                   last_move_ms, now, train_state_tick, disk>>
    /\ saves' = IF ev'.op = "claim"
                THEN spawn_save(c, <<SaveOf("users", users')>>) ELSE saves

(***************************************************************************)
(* handle_room_access (client.room_access_update)                          *)
(***************************************************************************)
is_adjacent_to_customizer(user) ==
    /\ parse_room_map_id(user.position.map_id) # <<>>
    /\ Abs(user.position.x - room_customizer_position[1])
         + Abs(user.position.y - room_customizer_position[2]) = 1

RoomAccess(c) ==
    /\ conn[c].st = "live" /\ conn[c].pc = "room_access"
    /\ LET user == conn[c].user
           m == conn[c].msg
           room == get_or_create_room(rooms, m.room_id, RoomPrice)
           updated == [room EXCEPT !.access = [mode |-> m.mode, list |-> m.list]]
       IN  IF ~is_adjacent_to_customizer(user)
           THEN /\ out' = <<send_error(c, "invalid_command")>>
                /\ ev' = Ev("access_not_adjacent", c)
                /\ UNCHANGED rooms
           ELSE IF room.owner_pubkey # user.pubkey
           THEN /\ rooms' = rooms_after_get_or_create(rooms, m.room_id, RoomPrice)
                /\ out' = <<send_error(c, "room_access_denied")>>
                /\ ev' = Ev("access_not_owner", c)
           ELSE /\ rooms' = Put(rooms, m.room_id, updated)
                /\ out' = <<Msg(c, "server.room_info", m.room_id)>>
                /\ ev' = Ev("access_updated", c)
    /\ SetConn(c, Back(c))
    /\ UNCHANGED <<next_user_id, users, users_by_pubkey, clients,
                   connected_users_by_map, trains, boarding, riders,
                   last_move_ms, balances, now, train_state_tick, disk>>
    /\ saves' = IF ev'.op = "access_updated"
                THEN spawn_save(c, <<SaveOf("rooms", rooms')>>) ELSE saves

(***************************************************************************)
(* handle_access_command, resolve_pubkeys, handle_room_name,               *)
(* handle_door_color.  A command carries args[0] of `access` in mode and   *)
(* the remaining tokens in list; the joined args of room_name, and args[0] *)
(* of door_color, in arg ("" when there is none).                          *)
(***************************************************************************)
\* resolve_pubkeys: [ok, list]
RECURSIVE resolve_pubkeys(_, _)
resolve_pubkeys(tokens, us) ==
    IF tokens = <<>> THEN [ok |-> TRUE, list |-> <<>>]
    ELSE LET token == Head(tokens)
             matches == {u \in DOMAIN us :
                            \/ us[u].user_id = token
                            \/ us[u].display_name # "none" /\ us[u].display_name = token}
             rest == resolve_pubkeys(Tail(tokens), us)
         IN  IF \E u \in DOMAIN us : us[u].pubkey = token
             THEN [ok |-> rest.ok, list |-> <<token>> \o rest.list]
             ELSE IF Cardinality(matches) # 1
             THEN [ok |-> FALSE, list |-> <<>>]
             ELSE [ok |-> rest.ok,
                   list |-> <<us[CHOOSE u \in matches : TRUE].pubkey>> \o rest.list]

\* The room a user stands in (room_id_for_door of parse_room_map_id).
RoomOf(user) ==
    LET r == parse_room_map_id(user.position.map_id)
    IN  room_id_for_door(r[1], r[2])

send_room_info(c, room) == Msg(c, "server.room_info", room.room_id)

AccessCommand(c) ==
    /\ conn[c].st = "live" /\ conn[c].pc = "access"
    /\ LET user == conn[c].user
           m == conn[c].msg
           room_id == RoomOf(user)
           room == get_or_create_room(rooms, room_id, RoomPrice)
           resolved == resolve_pubkeys(m.list, users)
           updated == [room EXCEPT !.access = [mode |-> m.mode, list |-> resolved.list]]
       IN  IF parse_room_map_id(user.position.map_id) = <<>>
           THEN /\ out' = <<send_error(c, "invalid_command")>>
                /\ ev' = Ev("cmd_access_not_in_room", c)
                /\ UNCHANGED rooms
           ELSE IF m.mode \in {"none", "show", "list"}
           THEN /\ rooms' = rooms_after_get_or_create(rooms, room_id, RoomPrice)
                /\ out' = <<send_notice(c, "access")>>
                /\ ev' = Ev("cmd_access_show", c)
           ELSE IF ~is_adjacent_to_customizer(user)
           THEN /\ out' = <<send_error(c, "invalid_command")>>
                /\ ev' = Ev("cmd_access_not_adjacent", c)
                /\ UNCHANGED rooms
           ELSE IF m.mode \notin AccessModes
           THEN /\ out' = <<send_error(c, "invalid_command")>>
                /\ ev' = Ev("cmd_access_bad_mode", c)
                /\ UNCHANGED rooms
           ELSE IF room.owner_pubkey # user.pubkey
           THEN /\ rooms' = rooms_after_get_or_create(rooms, room_id, RoomPrice)
                /\ out' = <<send_error(c, "room_access_denied")>>
                /\ ev' = Ev("cmd_access_not_owner", c)
           ELSE IF ~resolved.ok
           THEN /\ rooms' = rooms_after_get_or_create(rooms, room_id, RoomPrice)
                /\ out' = <<send_error(c, "invalid_command")>>
                /\ ev' = Ev("cmd_access_unresolved", c)
           ELSE /\ rooms' = Put(rooms, room_id, updated)
                /\ out' = <<send_room_info(c, updated)>>
                /\ ev' = Ev("cmd_access_updated", c)
    /\ SetConn(c, Back(c))
    /\ UNCHANGED <<next_user_id, users, users_by_pubkey, clients,
                   connected_users_by_map, trains, boarding, riders,
                   last_move_ms, balances, now, train_state_tick, disk>>
    /\ saves' = IF ev'.op = "cmd_access_updated"
                THEN spawn_save(c, <<SaveOf("rooms", rooms')>>) ELSE saves

RoomName(c) ==
    /\ conn[c].st = "live" /\ conn[c].pc = "room_name"
    /\ LET user == conn[c].user
           m == conn[c].msg
           room_id == RoomOf(user)
           room == get_or_create_room(rooms, room_id, RoomPrice)
           updated == [room EXCEPT !.display_name = m.arg]
       IN  IF ~is_adjacent_to_customizer(user)
           THEN /\ out' = <<send_error(c, "invalid_command")>>
                /\ ev' = Ev("room_name_not_adjacent", c)
                /\ UNCHANGED rooms
           ELSE IF m.arg = ""
           THEN /\ out' = <<send_error(c, "invalid_command")>>
                /\ ev' = Ev("room_name_usage", c)
                /\ UNCHANGED rooms
           ELSE IF room.owner_pubkey # user.pubkey
           THEN /\ rooms' = rooms_after_get_or_create(rooms, room_id, RoomPrice)
                /\ out' = <<send_error(c, "room_access_denied")>>
                /\ ev' = Ev("room_name_not_owner", c)
           ELSE /\ rooms' = Put(rooms, room_id, updated)
                /\ out' = <<send_room_info(c, updated)>>
                /\ ev' = Ev("room_name_updated", c)
    /\ SetConn(c, Back(c))
    /\ UNCHANGED <<next_user_id, users, users_by_pubkey, clients,
                   connected_users_by_map, trains, boarding, riders,
                   last_move_ms, balances, now, train_state_tick, disk>>
    /\ saves' = IF ev'.op = "room_name_updated"
                THEN spawn_save(c, <<SaveOf("rooms", rooms')>>) ELSE saves

\* str::to_lowercase on the colours the clients send
to_lowercase(t) == IF t = "RED" THEN "red" ELSE t
AllowedColors == {"red", "green", "yellow", "blue", "magenta", "cyan", "white"}

DoorColor(c) ==
    /\ conn[c].st = "live" /\ conn[c].pc = "door_color"
    /\ LET user == conn[c].user
           m == conn[c].msg
           color == to_lowercase(m.arg)
           room_id == RoomOf(user)
           room == get_or_create_room(rooms, room_id, RoomPrice)
           updated == [room EXCEPT !.door_color = color]
       IN  IF ~is_adjacent_to_customizer(user)
           THEN /\ out' = <<send_error(c, "invalid_command")>>
                /\ ev' = Ev("door_color_not_adjacent", c)
                /\ UNCHANGED rooms
           ELSE IF m.arg = "" \/ color \notin AllowedColors
           THEN /\ out' = <<send_error(c, "invalid_command")>>
                /\ ev' = Ev("door_color_invalid", c)
                /\ UNCHANGED rooms
           ELSE IF room.owner_pubkey # user.pubkey
           THEN /\ rooms' = rooms_after_get_or_create(rooms, room_id, RoomPrice)
                /\ out' = <<send_error(c, "room_access_denied")>>
                /\ ev' = Ev("door_color_not_owner", c)
           ELSE /\ rooms' = Put(rooms, room_id, updated)
                /\ out' = <<send_room_info(c, updated)>>
                /\ ev' = Ev("door_color_updated", c)
    /\ SetConn(c, Back(c))
    /\ UNCHANGED <<next_user_id, users, users_by_pubkey, clients,
                   connected_users_by_map, trains, boarding, riders,
                   last_move_ms, balances, now, train_state_tick, disk>>
    /\ saves' = IF ev'.op = "door_color_updated"
                THEN spawn_save(c, <<SaveOf("rooms", rooms')>>) ELSE saves

(***************************************************************************)
(* The train loop: spawn_train_loop, handle_boarding, handle_riders,       *)
(* station_passed                                                          *)
(***************************************************************************)
station_passed_open(prev, next, station, clockwise) ==
    IF prev = next THEN FALSE
    ELSE IF clockwise
         THEN IF prev <= next THEN station > prev /\ station < next
              ELSE station > prev \/ station < next
         ELSE IF next <= prev THEN station > next /\ station < prev
              ELSE station > next \/ station < prev
station_passed_strict_ccw(prev, next, station, clockwise) ==
    IF prev = next THEN FALSE
    ELSE IF clockwise
         THEN IF prev <= next THEN station >= prev /\ station <= next
              ELSE station >= prev \/ station <= next
         ELSE IF next <= prev THEN station > next /\ station < prev
              ELSE station > next \/ station < prev
station_passed(prev, next, station, clockwise) ==
    IF prev = next THEN FALSE
    ELSE IF clockwise
         THEN IF prev <= next THEN station >= prev /\ station <= next
              ELSE station >= prev \/ station <= next
         ELSE IF next <= prev THEN station >= next /\ station <= prev
              ELSE station >= next \/ station <= prev

\* The list `updates` of one tick: (id, prev, next, clockwise) per train
TrainUpdates(ts, dt) ==
    [i \in 1..Len(ts) |->
        [id |-> ts[i].id, prev |-> ts[i].x,
         next |-> (ts[i].x + ts[i].speed * (IF ts[i].clockwise THEN 1 ELSE -1) * dt)
                    % STREET_CIRCUMFERENCE_TILES,
         clockwise |-> ts[i].clockwise]]

\* The orders in which a HashMap can hand out the keys in S
Orders(S) ==
    {o \in [1..Cardinality(S) -> S] : \A i, j \in 1..Cardinality(S) : o[i] = o[j] => i = j}

\* The map the boarding step takes the user out of in the presence index
\* (previous_map, server.rs:1528).
BoardFromMap(user) == user.position.map_id

\* The inner loop over `updates` stops at the first train that passed the
\* station (the `break` of server.rs:1574); hits holds the indices that did.
last_match(hits) == CHOOSE i \in hits : \A j \in hits : i >= j
first_match(hits) == CHOOSE i \in hits : \A j \in hits : i <= j

\* Body of the loop of handle_boarding for one entry.  W carries the state
\* under the lock and the messages enqueued so far.
BoardOne(W, uid, req, updates) ==
    LET hits == {i \in 1..Len(updates) :
                    station_passed(updates[i].prev, updates[i].next,
                                   req.station_x, updates[i].clockwise)}
        first == first_match(hits)
        train_id == updates[first].id
        new_map == train_map_id(train_id)
        previous_map == BoardFromMap(W.users[uid])
        us == [W.users EXCEPT ![uid].position =
                    Pos(new_map, TRAIN_WIDTH \div 2, TRAIN_HEIGHT \div 2)]
        rd == Put(W.riders, uid,
                  [train_id |-> train_id, destination_x |-> req.destination_x])
        cm == move_connected_user(W.cm, uid, previous_map, new_map)
        own == IF uid \in DOMAIN clients
               THEN <<Msg(clients[uid].tx, "server.map_change", new_map),
                      send_notice(clients[uid].tx, "boarded train")>>
               ELSE <<>>
    IN  IF uid \in DOMAIN W.riders
        THEN [W EXCEPT !.boarding = Del(W.boarding, uid)]
        ELSE IF uid \notin DOMAIN W.users
                \/ parse_station_map_id(W.users[uid].position.map_id) # req.station_x
        THEN [W EXCEPT !.boarding = Del(W.boarding, uid)]
        ELSE IF hits = {} THEN W
        ELSE [users |-> us, cm |-> cm, riders |-> rd,
              boarding |-> Del(W.boarding, uid),
              out |-> W.out \o own
                      \o refresh_nearby_for_map(us, clients, cm, previous_map)
                      \o refresh_nearby_for_map(us, clients, cm, new_map)]

RECURSIVE handle_boarding(_, _, _, _)
handle_boarding(W, entries, order, updates) ==
    IF order = <<>> THEN W
    ELSE handle_boarding(BoardOne(W, Head(order), entries[Head(order)], updates),
                         entries, Tail(order), updates)

RideOne_refresh_first(W, uid, ride, updates) ==
    LET found == {i \in 1..Len(updates) : updates[i].id = ride.train_id}
        u == updates[CHOOSE i \in found : \A j \in found : i <= j]
        valid_train == /\ uid \in DOMAIN W.users
                       /\ W.users[uid].position.map_id = train_map_id(ride.train_id)
        street_y == IF u.clockwise THEN STATION_DOOR_Y_BOTTOM ELSE STATION_DOOR_Y_TOP
        s == station_entry_position_for_street_y(street_y)
        previous_map == W.users[uid].position.map_id
        new_map == station_map_id(ride.destination_x)
        us == [W.users EXCEPT ![uid].position = Pos(new_map, s[1], s[2])]
        cm == move_connected_user(W.cm, uid, previous_map, new_map)
        own == IF uid \in DOMAIN clients
               THEN <<Msg(clients[uid].tx, "server.map_change", new_map),
                      send_notice(clients[uid].tx, "disembarked train")>>
               ELSE <<>>
    IN  IF found = {} THEN W
        ELSE IF ~valid_train THEN [W EXCEPT !.riders = Del(W.riders, uid)]
        ELSE IF ~station_passed(u.prev, u.next, ride.destination_x, u.clockwise)
        THEN W
        ELSE [users |-> us, cm |-> cm, riders |-> Del(W.riders, uid),
              boarding |-> W.boarding,
              out |-> W.out
                      \o refresh_nearby_for_map(us, clients, cm, previous_map)
                      \o refresh_nearby_for_map(us, clients, cm, new_map)
                      \o own]
\* Body of the loop of handle_riders for one entry.
RideOne(W, uid, ride, updates) ==
    LET found == {i \in 1..Len(updates) : updates[i].id = ride.train_id}
        u == updates[CHOOSE i \in found : \A j \in found : i <= j]
        valid_train == /\ uid \in DOMAIN W.users
                       /\ W.users[uid].position.map_id = train_map_id(ride.train_id)
        street_y == IF u.clockwise THEN STATION_DOOR_Y_BOTTOM ELSE STATION_DOOR_Y_TOP
        s == station_entry_position_for_street_y(street_y)
        previous_map == W.users[uid].position.map_id
        new_map == station_map_id(ride.destination_x)
        us == [W.users EXCEPT ![uid].position = Pos(new_map, s[1], s[2])]
        cm == move_connected_user(W.cm, uid, previous_map, new_map)
        own == IF uid \in DOMAIN clients
               THEN <<Msg(clients[uid].tx, "server.map_change", new_map),
                      send_notice(clients[uid].tx, "disembarked train")>>
               ELSE <<>>
    IN  IF found = {} THEN W
        ELSE IF ~valid_train THEN [W EXCEPT !.riders = Del(W.riders, uid)]
        ELSE IF ~station_passed(u.prev, u.next, ride.destination_x, u.clockwise)
        THEN W
        ELSE [users |-> us, cm |-> cm, riders |-> Del(W.riders, uid),
              boarding |-> W.boarding,
              out |-> W.out \o own
                      \o refresh_nearby_for_map(us, clients, cm, previous_map)
                      \o refresh_nearby_for_map(us, clients, cm, new_map)]

RECURSIVE handle_riders(_, _, _, _)
handle_riders(W, entries, order, updates) ==
    IF order = <<>> THEN W
    ELSE handle_riders(RideOne(W, Head(order), entries[Head(order)], updates),
                       entries, Tail(order), updates)

should_receive_train_state(user) ==
    user.position.map_id = <<"street">> \/ parse_train_map_id(user.position.map_id) # -1

\* The server.train_state broadcast of a tick
TrainStateBroadcast_sockets(us) ==
    [i \in 1..Cardinality(DOMAIN conn) |-> Msg(i, "server.train_state", "tick")]
TrainStateBroadcast(us) ==
    LET order == SortedIds({u \in DOMAIN clients :
                              u \in DOMAIN us /\ should_receive_train_state(us[u])})
    IN  [i \in 1..Len(order) |-> Msg(clients[order[i]].tx, "server.train_state", "tick")]

\* One iteration of the train loop.  train_state_tick is kept modulo
\* TRAIN_STATE_BROADCAST_TICKS, which divides 2^32.  W1 and W2 are the state
\* under the lock after handle_boarding and after handle_riders.
TrainTick(dt) ==
    /\ LET W0 == [users |-> users, cm |-> connected_users_by_map,
                  riders |-> riders, boarding |-> boarding, out |-> <<>>]
           tick == (train_state_tick + 1) % TRAIN_STATE_BROADCAST_TICKS
       IN  \E updates \in {TrainUpdates(trains, dt)} :
           \E o1 \in Orders(DOMAIN boarding) :
           \E W1 \in {handle_boarding(W0, boarding, o1, updates)} :
           \E o2 \in Orders(DOMAIN W1.riders) :
           \E W2 \in {handle_riders(W1, W1.riders, o2, updates)} :
               /\ trains' = [i \in 1..Len(trains) |->
                                [trains[i] EXCEPT !.x = updates[i].next]]
               /\ users' = W2.users
               /\ connected_users_by_map' = W2.cm
               /\ riders' = W2.riders
               /\ boarding' = W2.boarding
               /\ train_state_tick' = tick
               /\ out' = W2.out \o (IF tick = 0 THEN TrainStateBroadcast(W2.users)
                                    ELSE <<>>)
    /\ ev' = Ev("tick", 0)
    /\ UNCHANGED <<next_user_id, users_by_pubkey, rooms, clients, last_move_ms,
                   balances, now, conn, disk, saves>>

\* The wall clock advances.
ClockAdvance ==
    /\ now + ClockStep <= MaxNow
    /\ now' = now + ClockStep
    /\ out' = <<>>
    /\ ev' = Ev("clock", 0)
    /\ UNCHANGED <<world, train_state_tick, conn, disk, saves>>

\* The same clock seen at a finer grain: moves arrive at any multiple of
\* FineStep milliseconds.
ClockTick ==
    /\ now + FineStep <= MaxNow
    /\ now' = now + FineStep
    /\ out' = <<>>
    /\ ev' = Ev("clock", 0)
    /\ UNCHANGED <<world, train_state_tick, conn, disk, saves>>

(***************************************************************************)
(* handle_chat and in_box.  A client.chat carries scope ("none" when the   *)
(* field is absent), target ("none" when absent) and enc: "none" when      *)
(* absent, "no_key" for a payload without sender_key, "keyed" with one.    *)
(***************************************************************************)
LOCAL_CHAT_WIDTH == 16
LOCAL_CHAT_HEIGHT == 16
WHISPER_WIDTH == 5
WHISPER_HEIGHT == 5

in_box_centred(ax, ay, bx, by, width, height) ==
    /\ bx >= ax - width \div 2 /\ bx <= ax + width \div 2
    /\ by >= ay - height \div 2 /\ by <= ay + height \div 2
in_box(ax, ay, bx, by, width, height) ==
    LET half_w == width \div 2
        half_h == height \div 2
        min_x == ax - half_w
        max_x == min_x + width - 1
        min_y == ay - half_h
        max_y == min_y + height - 1
    IN  bx >= min_x /\ bx <= max_x /\ by >= min_y /\ by <= max_y

\* The server.chat envelopes for the recipients, in order; a recipient
\* without a session is skipped (server.rs:561-565).
\* The payload field kept of a server.chat is <<from, scope, enc>>.
ChatEnvelopes(recipients, from, scope, enc) ==
    LET live == SelectSeq(recipients, LAMBDA u : u \in DOMAIN clients)
    IN  [i \in 1..Len(live) |->
            Msg(clients[live[i]].tx, "server.chat", <<from, scope, enc>>)]

\* The tail of handle_chat (server.rs:551-571)
ChatForward(c, recipients, from, scope, enc) ==
    /\ out' = ChatEnvelopes(recipients, from, scope, enc)
               \o (IF recipients = <<>> THEN <<send_notice(c, "no recipients")>>
                   ELSE <<>>)
    /\ ev' = Ev("chat_sent", c)

\* The guard that refuses a plaintext local chat off the street
\* (server.rs:523).
LocalNeedsEnc_off(on_street, enc) == FALSE
LocalNeedsEnc(on_street, enc) == ~on_street /\ enc = "none"

Chat(c) ==
    /\ conn[c].st = "live" /\ conn[c].pc = "chat"
    /\ LET user == conn[c].user
           m == conn[c].msg
           scope == IF m.scope = "none" THEN "local" ELSE m.scope
           on_street == user.position.map_id = <<"street">>
           users_in_map == connected_users_in_map(users, connected_users_by_map,
                                                  user.position.map_id)
           matches == {u \in users_in_map :
                          u = m.target \/ users[u].display_name = m.target}
           local == SelectSeq(SortedIds(users_in_map),
                        LAMBDA u : on_street =>
                            in_box(user.position.x, user.position.y,
                                   users[u].position.x, users[u].position.y,
                                   LOCAL_CHAT_WIDTH, LOCAL_CHAT_HEIGHT))
       IN  CASE scope = "whisper" ->
                  IF m.enc = "none"
                  THEN /\ out' = <<send_error(c, "invalid_command")>>
                       /\ ev' = Ev("chat_whisper_unencrypted", c)
                  ELSE IF m.enc = "no_key"
                  THEN /\ out' = <<send_error(c, "invalid_command")>>
                       /\ ev' = Ev("chat_whisper_no_key", c)
                  ELSE IF m.target = "none"
                  THEN /\ out' = <<send_error(c, "invalid_command")>>
                       /\ ev' = Ev("chat_whisper_no_target", c)
                  ELSE IF matches = {}
                  THEN /\ out' = <<send_error(c, "invalid_command")>>
                       /\ ev' = Ev("chat_whisper_not_found", c)
                  ELSE \E target_user \in matches :
                         IF ~in_box(user.position.x, user.position.y,
                                    users[target_user].position.x,
                                    users[target_user].position.y,
                                    WHISPER_WIDTH, WHISPER_HEIGHT)
                         THEN /\ out' = <<send_notice(c, "whisper target out of range")>>
                              /\ ev' = Ev("chat_whisper_out_of_range", c)
                         ELSE ChatForward(c,
                                  IF target_user # user.user_id
                                  THEN <<user.user_id, target_user>>
                                  ELSE <<user.user_id>>,
                                  user.user_id, scope, m.enc)
             [] scope = "room" ->
                  IF on_street
                  THEN /\ out' = <<send_error(c, "invalid_command")>>
                       /\ ev' = Ev("chat_room_on_street", c)
                  ELSE IF m.enc = "none"
                  THEN /\ out' = <<send_error(c, "invalid_command")>>
                       /\ ev' = Ev("chat_room_unencrypted", c)
                  ELSE ChatForward(c, SortedIds(users_in_map), user.user_id, scope, m.enc)
             [] OTHER ->
                  IF LocalNeedsEnc(on_street, m.enc)
                  THEN /\ out' = <<send_error(c, "invalid_command")>>
                       /\ ev' = Ev("chat_local_unencrypted", c)
                  ELSE IF on_street /\ m.enc # "none"
                  THEN /\ out' = <<send_error(c, "invalid_command")>>
                       /\ ev' = Ev("chat_local_encrypted", c)
                  ELSE ChatForward(c, local, user.user_id, scope, m.enc)
    /\ SetConn(c, Back(c))
    /\ UNCHANGED <<world, now, train_state_tick, disk, saves>>

(***************************************************************************)
(* handle_room_key.  A client.room_key carries room_id, target and the     *)
(* three strings sender_key, nonce, ciphertext; blank names the one of     *)
(* them that is empty, "none" when all three are non-empty.                *)
(***************************************************************************)
\* The guard that refuses a key for another room than the sender's
\* (server.rs:584).
RoomMismatch_off(room_id, current_room_id) == FALSE
RoomMismatch(room_id, current_room_id) == room_id # current_room_id

RoomKey(c) ==
    /\ conn[c].st = "live" /\ conn[c].pc = "room_key"
    /\ LET user == conn[c].user
           m == conn[c].msg
           current_room_id == parse_room_map_id(user.position.map_id)
           users_in_map == connected_users_in_map(users, connected_users_by_map,
                                                  user.position.map_id)
       IN  IF current_room_id = <<>>
           THEN /\ out' = <<send_error(c, "invalid_command")>>
                /\ ev' = Ev("room_key_not_in_room", c)
           ELSE IF RoomMismatch(m.room_id, current_room_id)
           THEN /\ out' = <<send_error(c, "invalid_command")>>
                /\ ev' = Ev("room_key_mismatch", c)
           ELSE IF m.blank # "none"
           THEN /\ out' = <<send_error(c, "invalid_command")>>
                /\ ev' = Ev("room_key_blank", c)
           ELSE IF m.target \notin users_in_map
           THEN /\ out' = <<send_error(c, "invalid_command")>>
                /\ ev' = Ev("room_key_no_target", c)
           ELSE /\ out' = IF m.target \in DOMAIN clients
                          THEN <<Msg(clients[m.target].tx, "server.room_key",
                                     <<m.room_id, user.user_id>>)>>
                          ELSE <<>>
                /\ ev' = Ev("room_key_sent", c)
    /\ SetConn(c, Back(c))
    /\ UNCHANGED <<world, now, train_state_tick, disk, saves>>

(***************************************************************************)
(* handle_buy and handle_pay.  A `pay` command carries its first argument  *)
(* in target and its second in arg; "none" stands for an absent argument.  *)
(***************************************************************************)
\* str::parse::<f64>().unwrap_or(0.0) on the amount strings of the model,
\* in units of 1e-4 XMR
ParseF64(a) ==
    CASE a = "1" -> 1 * ATOMS
      [] a = "6" -> 6 * ATOMS
      [] a = "10" -> 10 * ATOMS
      [] a = "-1" -> (-1) * ATOMS
      [] a = "-6" -> (-6) * ATOMS
      [] OTHER -> 0

tx_update(c, status, confirmations) ==
    Msg(c, "server.tx_update", <<status, confirmations>>)
balance_notice_error(c, b, pubkey) == send_error(c, "wallet_error")
balance_notice(c, b, pubkey) ==
    send_notice(c, "balance: " \o ToString(Balance(b, pubkey)))

\* The test that rejects a buy (server.rs:752).
NotForSale_off(room) == FALSE
NotForSale(room) == ~room.for_sale

\* handle_buy holds the write lock from get_or_create_room to the insert.
Buy(c) ==
    /\ conn[c].st = "live" /\ conn[c].pc = "buy"
    /\ LET user == conn[c].user
           r == parse_room_map_id(user.position.map_id)
           rid == room_id_for_door(r[1], r[2])
           room == get_or_create_room(rooms, rid, RoomPrice)
           rs == rooms_after_get_or_create(rooms, rid, RoomPrice)
           price == room.price_xmr * ATOMS
           fee == compute_fee(price)
           payee == IF room.owner_pubkey # "none" THEN room.owner_pubkey
                    ELSE DevWallet
           s1 == wallet_send(balances, user.pubkey, payee, price, 0)
           s2 == wallet_send(s1.balances, user.pubkey, DevWallet, fee, 0)
           updated == [room EXCEPT !.owner_pubkey = user.pubkey, !.for_sale = FALSE]
       IN  IF r = <<>>
           THEN /\ out' = <<send_error(c, "invalid_command")>>
                /\ ev' = Ev("buy_not_in_room", c)
                /\ UNCHANGED <<rooms, balances>>
           ELSE IF NotForSale(room)
           THEN /\ out' = <<send_error(c, "invalid_command")>>
                /\ ev' = Ev("buy_not_for_sale", c)
                /\ rooms' = rs
                /\ UNCHANGED balances
           ELSE IF ~s1.ok
           THEN /\ out' = <<send_error(c, "insufficient_funds")>>
                /\ ev' = Ev("buy_unpaid", c)
                /\ rooms' = rs
                /\ UNCHANGED balances
           ELSE IF ~s2.ok
           THEN /\ out' = <<send_error(c, "insufficient_funds")>>
                /\ ev' = Ev("buy_fee_unpaid", c)
                /\ rooms' = rs
                /\ balances' = s1.balances
           ELSE /\ rooms' = Put(rs, rid, updated)
                /\ balances' = s2.balances
                /\ out' = <<tx_update(c, "confirmed", 8), send_room_info(c, updated),
                            balance_notice(c, s2.balances, user.pubkey)>>
                /\ ev' = Ev("buy", c)
    /\ SetConn(c, Back(c))
    /\ UNCHANGED <<next_user_id, users, users_by_pubkey, clients,
                   connected_users_by_map, trains, boarding, riders,
                   last_move_ms, now, train_state_tick, disk>>
    /\ saves' = IF ev'.op = "buy"
                THEN spawn_save(c, <<SaveOf("rooms", rooms')>>) ELSE saves

\* The users `find` can return for a target (server.rs:826-830).
PayRecipients(us, target) ==
    {u \in DOMAIN us : us[u].user_id = target \/ us[u].display_name = target}

\* handle_pay up to and including the first wallet.send; the read lock is
\* taken at line 825 and kept to the end of the handler.
Pay(c) ==
    /\ conn[c].st = "live" /\ conn[c].pc = "pay"
    /\ LET user == conn[c].user
           m == conn[c].msg
           found == PayRecipients(users, m.target)
       IN  IF m.target = "none" \/ m.arg = "none"
           THEN /\ out' = <<send_error(c, "invalid_command")>>
                /\ ev' = Ev("pay_usage", c)
                /\ SetConn(c, Back(c))
                /\ UNCHANGED balances
           ELSE IF found = {}
           THEN /\ out' = <<send_error(c, "invalid_command")>>
                /\ ev' = Ev("pay_no_recipient", c)
                /\ SetConn(c, Back(c))
                /\ UNCHANGED balances
           ELSE \E recipient \in found :
                  LET s1 == wallet_send(balances, user.pubkey,
                                        users[recipient].pubkey, ParseF64(m.arg), 0)
                  IN  IF ~s1.ok
                      THEN /\ out' = <<send_error(c, "insufficient_funds")>>
                           /\ ev' = Ev("pay_unpaid", c)
                           /\ SetConn(c, Back(c))
                           /\ UNCHANGED balances
                      ELSE /\ balances' = s1.balances
                           /\ out' = <<>>
                           /\ ev' = Ev("pay_sent", c)
                           /\ SetConn(c, [conn[c] EXCEPT !.pc = "pay_fee",
                                                         !.msg.target = recipient])
    /\ UNCHANGED <<next_user_id, users, users_by_pubkey, rooms, clients,
                   connected_users_by_map, trains, boarding, riders,
                   last_move_ms, now, train_state_tick, disk, saves>>

\* The rest of handle_pay: the second wallet.send and the replies.
PayFee(c) ==
    /\ conn[c].st = "live" /\ conn[c].pc = "pay_fee"
    /\ LET user == conn[c].user
           fee == compute_fee(ParseF64(conn[c].msg.arg))
           s2 == wallet_send(balances, user.pubkey, DevWallet, fee, 0)
       IN  IF ~s2.ok
           THEN /\ out' = <<send_error(c, "insufficient_funds")>>
                /\ ev' = Ev("pay_fee_unpaid", c)
                /\ UNCHANGED balances
           ELSE /\ balances' = s2.balances
                /\ out' = <<tx_update(c, "pending", 0),
                            balance_notice(c, s2.balances, user.pubkey)>>
                /\ ev' = Ev("pay", c)
    /\ SetConn(c, Back(c))
    /\ UNCHANGED <<next_user_id, users, users_by_pubkey, rooms, clients,
                   connected_users_by_map, trains, boarding, riders,
                   last_move_ms, now, train_state_tick, disk, saves>>

\* handle_faucet: the first argument parsed as f64, 5.0 when it is absent
\* or not a number, is credited to the caller; then handle_balance.  No
\* lock of the state is taken.
FAUCET_DEFAULT == 5
FaucetAmount(a) ==
    IF a \in {"1", "6", "10", "-1", "-6"} THEN ParseF64(a) ELSE FAUCET_DEFAULT * ATOMS
credit(b, pubkey, amount) == Put(b, pubkey, Balance(b, pubkey) + amount)

Faucet(c) ==
    /\ conn[c].st = "live" /\ conn[c].pc = "faucet"
    /\ LET user == conn[c].user
           amount == FaucetAmount(conn[c].msg.arg)
           b == credit(balances, user.pubkey, amount)
       IN  /\ balances' = b
           /\ out' = <<send_notice(c, "faucet: +" \o ToString(amount)),
                       balance_notice(c, b, user.pubkey)>>
           /\ ev' = Ev("faucet", c)
    /\ SetConn(c, Back(c))
    /\ UNCHANGED <<next_user_id, users, users_by_pubkey, rooms, clients,
                   connected_users_by_map, trains, boarding, riders,
                   last_move_ms, now, train_state_tick, disk, saves>>

\* A task inside handle_pay holds the read lock of the state.
ReadLockHeld == \E c \in DOMAIN conn : conn[c].pc = "pay_fee"

(***************************************************************************)
(* Specifications.  Each one starts the relay on one content of storage    *)
(* and lets the clients send one family of messages.                       *)
(***************************************************************************)
StartUp(p, dirs, cs, tracked) ==
    /\ next_user_id = MaxId(p.users) + 1
    /\ users = [id \in {u.user_id : u \in p.users} |->
                    CHOOSE u \in p.users : u.user_id = id]
    /\ users_by_pubkey = [k \in {u.pubkey : u \in p.users} |->
                    (CHOOSE u \in p.users : u.pubkey = k).user_id]
    /\ rooms = [id \in {r.room_id : r \in p.rooms} |->
                    CHOOSE r \in p.rooms : r.room_id = id]
    /\ clients = EmptyMap
    /\ connected_users_by_map = EmptyMap
    /\ trains = init_trains(dirs)
    /\ boarding = EmptyMap
    /\ riders = EmptyMap
    /\ last_move_ms = EmptyMap
    /\ balances = EmptyMap
    /\ now = MOVE_INTERVAL_MS
    /\ train_state_tick = 0
    /\ conn = [c \in cs |-> ClosedConn]
    /\ out = <<>>
    /\ ev = [op |-> "start", c |-> 0]
    /\ disk = [tracked |-> tracked,
               users |-> [id \in {u.user_id : u \in p.users} |->
                             CHOOSE u \in p.users : u.user_id = id],
               rooms |-> [id \in {r.room_id : r \in p.rooms} |->
                             CHOOSE r \in p.rooms : r.room_id = id]]
    /\ saves = {}

\* The specifications that do not follow the saves leave storage as it was
\* at startup.
InitConns(p, dirs, cs) == StartUp(p, dirs, cs, FALSE)

InitWith(p, dirs) == InitConns(p, dirs, Conns)

\* --- Spec: one user who was saved while standing in station/0; it walks,
\* boards, rides, changes destination and disconnects while the trains run.
RideMsgs ==
    {m \in LiveMsgs :
        \/ m.type = "client.move" /\ m.dir \in {"Up", "Down"}
        \/ m.type = "client.command" /\ m.name \in {"board", "depart"}}

Init == InitWith(PersistedRider, <<TRUE, FALSE, TRUE, FALSE>>)

Next ==
    \/ Accept(1)
    \/ Auth(1, "k1", "none")
    \/ Disconnect(1)
    \/ ReadError(1)
    \/ \E m \in RideMsgs : Recv(1, m, "valid", TRUE)
    \/ MoveRate(1)
    \/ MoveApply(1)
    \/ Board(1)
    \/ Depart(1)
    \/ \E dt \in DtChoices : TrainTick(dt)
    \/ ClockAdvance

Spec == Init /\ [][Next]_vars

\* --- SpecSession: an empty storage; connections authenticate, fail to,
\* send well-formed and ill-formed envelopes, and go away.
SessionMsgs ==
    {m \in LiveMsgs :
        \/ m.type \in {"client.heartbeat", "client.auth", "client.bogus", "server.bogus"}
        \/ m.type = "client.command" /\ m.name = "bogus"
        \/ m.type = "client.move" /\ m.dir = "Up"}

InitSession == InitWith(PersistedNothing, <<TRUE, FALSE, TRUE, FALSE>>)

NextSession ==
    \/ \E c \in Conns : Accept(c)
    \/ \E c \in Conns : PreAuthAbort(c)
    \/ \E c \in Conns : AuthWrongType(c)
    \/ \E c \in Conns : AuthBadPubkey(c)
    \/ \E c \in Conns : AuthBadChallenge(c)
    \/ \E c \in Conns, key \in Keys, x \in X25519Inputs : Auth(c, key, x)
    \/ \E c \in Conns : Disconnect(c)
    \/ \E c \in Conns : ReadError(c)
    \/ \E c \in Conns, m \in SessionMsgs, sig \in SigKinds, ok \in BOOLEAN :
          Recv(c, m, sig, ok)
    \/ \E c \in Conns : MoveRate(c)
    \/ \E c \in Conns : MoveApply(c)

SpecSession == InitSession /\ [][NextSession]_vars

\* --- SpecName: an empty storage; two users claim display names.
NameMsgs == {m \in LiveMsgs : m.type = "client.command" /\ m.name = "claim_name"}

NextName ==
    \/ \E c \in Conns : Accept(c)
    \/ \E c \in Conns, key \in Keys : Auth(c, key, "none")
    \/ \E c \in Conns : Disconnect(c)
    \/ \E c \in Conns, m \in NameMsgs : Recv(c, m, "valid", TRUE)
    \/ \E c \in Conns : ClaimName(c)

SpecName == InitSession /\ [][NextName]_vars

\* --- SpecRoom: the owner of north:0 was saved next to the customizer of
\* its room, a second user at the spawn tile in front of the door.  The owner
\* connects on the first connection, the visitor on the others.
RoomMsgs ==
    {m \in LiveMsgs :
        \/ m.type = "client.move" /\ m.dir \in {"Up", "Down"}
        \/ m.type = "client.room_access_update"}

InitRoom == InitWith(PersistedOwner, <<TRUE, FALSE, TRUE, FALSE>>)

NextRoom ==
    \/ \E c \in Conns : Accept(c)
    \/ Auth(1, "k1", "none")
    \/ \E c \in Conns \ {1} : Auth(c, "k2", "none")
    \/ \E c \in Conns : Disconnect(c)
    \/ \E c \in Conns, m \in RoomMsgs : Recv(c, m, "valid", TRUE)
    \/ \E c \in Conns : MoveRate(c)
    \/ \E c \in Conns : MoveApply(c)
    \/ \E c \in Conns : RoomAccess(c)
    \/ ClockAdvance

SpecRoom == InitRoom /\ [][NextRoom]_vars

\* --- SpecCustom: the owners of north:0 and north:6 both stand in north:0
\* and send the requests that customise a room.
CustomMsgs ==
    {[NoMsg EXCEPT !.type = "client.room_access_update", !.room_id = r,
                   !.mode = "whitelist", !.list = l] :
        r \in {<<"north", 0>>, <<"north", 6>>}, l \in {<<"k2">>, <<"alice">>}}
    \cup {[NoMsg EXCEPT !.type = "client.command", !.name = "access",
                        !.mode = md, !.list = <<>>] : md \in {"show", "bogus", "open"}}
    \cup {[NoMsg EXCEPT !.type = "client.command", !.name = "access",
                        !.mode = "blacklist", !.list = l] :
            l \in {<<"alice">>, <<"u_2">>, <<"k2">>, <<"nobody">>}}
    \cup {[NoMsg EXCEPT !.type = "client.command", !.name = "room_name", !.arg = a] :
            a \in {"", "den"}}
    \cup {[NoMsg EXCEPT !.type = "client.command", !.name = "door_color", !.arg = a] :
            a \in {"", "RED", "pink"}}

InitCustom ==
    \E owner_y \in {2, 3} :
        InitWith(PersistedTenants(owner_y), <<TRUE, FALSE, TRUE, FALSE>>)

NextCustom ==
    \/ \E c \in Conns : Accept(c)
    \/ Auth(1, "k1", "none")
    \/ \E c \in Conns \ {1} : Auth(c, "k2", "none")
    \/ \E c \in Conns : Disconnect(c)
    \/ \E c \in Conns, m \in CustomMsgs : Recv(c, m, "valid", TRUE)
    \/ \E c \in Conns : RoomAccess(c)
    \/ \E c \in Conns : AccessCommand(c)
    \/ \E c \in Conns : RoomName(c)
    \/ \E c \in Conns : DoorColor(c)

SpecCustom == InitCustom /\ [][NextCustom]_vars

\* --- SpecMove: the owner of north:0 walks in its room (the customizer tile
\* is above it, a wall to its left) while the clock advances in small steps.
MoveMsgs == {m \in LiveMsgs : m.type = "client.move" /\ m.dir \in {"Up", "Down", "Left"}}

NextMove ==
    \/ Accept(1)
    \/ Auth(1, "k1", "none")
    \/ Disconnect(1)
    \/ \E m \in MoveMsgs : Recv(1, m, "valid", TRUE)
    \/ MoveRate(1)
    \/ MoveApply(1)
    \/ ClockTick

SpecMove == InitRoom /\ [][NextMove]_vars

\* --- SpecTransit: the single user of Spec, saved either in station/0 or
\* at the spawn tile in front of the door of north:0.
InitTransit ==
    \E p \in {PersistedRider, PersistedVisitor} :
        InitWith(p, <<TRUE, FALSE, TRUE, FALSE>>)

SpecTransit == InitTransit /\ [][Next]_vars

\* --- SpecBoardLive: the user saved in station/0 asks for trains and walks
\* while the train loop keeps ticking.  The loop never ends (server.rs:1449)
\* and the write lock it waits for is granted in arrival order, so every tick
\* that is due is eventually taken.
BoardMsgs ==
    {m \in LiveMsgs :
        \/ m.type = "client.move" /\ m.dir \in {"Up", "Down"}
        \/ m.type = "client.command" /\ m.name = "board" /\ m.arg = "east"}

NextBoardLive ==
    \/ Accept(1)
    \/ Auth(1, "k1", "none")
    \/ Disconnect(1)
    \/ \E m \in BoardMsgs : Recv(1, m, "valid", TRUE)
    \/ MoveRate(1)
    \/ MoveApply(1)
    \/ Board(1)
    \/ \E dt \in DtLive : TrainTick(dt)

SpecBoardLive ==
    Init /\ [][NextBoardLive]_vars /\ WF_vars(\E dt \in DtLive : TrainTick(dt))

\* --- SpecBoardWide: the user saved in station/0 asks for a train to the
\* next station or the one after; a tick can be late enough for two trains
\* to pass a station within it.
DtWide == {4, 8}
WideMsgs ==
    {[NoMsg EXCEPT !.type = "client.command", !.name = "board", !.arg = a] :
        a \in {"east", "south"}}

NextBoardWide ==
    \/ Accept(1)
    \/ Auth(1, "k1", "none")
    \/ Disconnect(1)
    \/ \E m \in WideMsgs : Recv(1, m, "valid", TRUE)
    \/ Board(1)
    \/ \E dt \in DtWide : TrainTick(dt)

SpecBoardWide == Init /\ [][NextBoardWide]_vars

\* --- SpecChat: u_1 (k1) chats and asks for a train; u_2 (k2, named alice)
\* listens.  Storage holds them either on the street, u_1 at x = 10 and u_2
\* at one of the offsets where the two boxes of in_box end, or in station/0,
\* u_2 two or three rows above u_1.
PersistedStreetPair(x2) ==
    [users |-> {PUser(1, "k1", "none", Pos(<<"street">>, 10, 1)),
                PUser(2, "k2", "alice", Pos(<<"street">>, x2, 1))},
     rooms |-> {}]
PersistedStationPair(y2) ==
    [users |-> {PUser(1, "k1", "none", Pos(<<"station", 0>>, 16, 14)),
                PUser(2, "k2", "alice", Pos(<<"station", 0>>, 16, y2))},
     rooms |-> {}]

StreetOffsets == {1, 2, 7, 8, 12, 13, 17, 18}
StationRows == {11, 12}

ChatMsgs ==
    {[NoMsg EXCEPT !.type = "client.chat", !.scope = "whisper", !.enc = e,
                   !.target = t] :
        e \in {"none", "no_key", "keyed"},
        t \in {"none", "u_1", "u_2", "alice", "nobody"}}
    \cup {[NoMsg EXCEPT !.type = "client.chat", !.scope = sc, !.enc = e] :
            sc \in {"none", "local", "room"}, e \in {"none", "keyed"}}
    \cup {[NoMsg EXCEPT !.type = "client.command", !.name = "board", !.arg = "east"]}

InitChat ==
    \E p \in {PersistedStreetPair(x) : x \in StreetOffsets}
               \cup {PersistedStationPair(y) : y \in StationRows} :
        InitWith(p, <<TRUE, FALSE, TRUE, FALSE>>)

NextChat ==
    \/ \E c \in Conns : Accept(c)
    \/ Auth(1, "k1", "none")
    \/ \E c \in Conns \ {1} : Auth(c, "k2", "none")
    \/ \E c \in Conns : Disconnect(c)
    \/ \E m \in ChatMsgs : Recv(1, m, "valid", TRUE)
    \/ Chat(1)
    \/ Board(1)
    \/ \E dt \in DtChoices : TrainTick(dt)

SpecChat == InitChat /\ [][NextChat]_vars

\* --- SpecRoomKey: three users with one connection each; u_1 sends room
\* keys.  Storage holds u_3 in room north:0, u_1 there, in room north:6 or on
\* the street, and u_2 in north:0 or in north:6.
KeyConns == 1..(MaxConns + 1)
KeyOf(c) == <<"k1", "k2", "k3">>[((c - 1) % 3) + 1]

SenderPlaces == {Pos(<<"room", "north", 0>>, 5, 5), Pos(<<"room", "north", 6>>, 5, 5),
                 Pos(<<"street">>, 0, 1)}
TargetPlaces == {Pos(<<"room", "north", 0>>, 6, 5), Pos(<<"room", "north", 6>>, 6, 5)}

PersistedRoomMates(p1, p2) ==
    [users |-> {PUser(1, "k1", "none", p1), PUser(2, "k2", "alice", p2),
                PUser(3, "k3", "none", Pos(<<"room", "north", 0>>, 7, 5))},
     rooms |-> {}]

RoomKeyMsgs ==
    {[NoMsg EXCEPT !.type = "client.room_key", !.room_id = r, !.target = t,
                   !.blank = b] :
        r \in {<<"north", 0>>, <<"north", 6>>},
        t \in {"u_1", "u_2", "u_3", "alice", "nobody"},
        b \in {"none", "sender_key", "nonce", "ciphertext"}}

InitRoomKey ==
    \E p1 \in SenderPlaces, p2 \in TargetPlaces :
        InitConns(PersistedRoomMates(p1, p2), <<TRUE, FALSE, TRUE, FALSE>>, KeyConns)

NextRoomKey ==
    \/ \E c \in KeyConns : Accept(c)
    \/ \E c \in KeyConns : Auth(c, KeyOf(c), "none")
    \/ \E c \in KeyConns : Disconnect(c)
    \/ \E m \in RoomKeyMsgs : Recv(1, m, "valid", TRUE)
    \/ RoomKey(1)
    \/ \E dt \in DtChoices : TrainTick(dt)

SpecRoomKey == InitRoomKey /\ [][NextRoomKey]_vars

\* --- SpecBuy: an empty storage; two new users walk from the spawn tile
\* into north:0 and buy it.
BuyMsgs ==
    {[NoMsg EXCEPT !.type = "client.move", !.dir = "Up"],
     [NoMsg EXCEPT !.type = "client.command", !.name = "buy"]}

NextBuy ==
    \/ \E c \in Conns : Accept(c)
    \/ Auth(1, "k1", "none")
    \/ \E c \in Conns \ {1} : Auth(c, "k2", "none")
    \/ \E c \in Conns : Disconnect(c)
    \/ \E c \in Conns, m \in BuyMsgs : Recv(c, m, "valid", TRUE)
    \/ \E c \in Conns : MoveRate(c)
    \/ \E c \in Conns : MoveApply(c)
    \/ \E c \in Conns : Buy(c)

SpecBuy == InitSession /\ [][NextBuy]_vars

\* --- SpecSave: an empty storage and the saves followed.  The first user
\* walks into north:0 and disconnects, the second walks into it and buys
\* it.  Every change of rooms (a room created at its door, a room bought)
\* and every disconnect starts a save task, the tasks write in any order,
\* and a connection reads its next message when its handler's save has
\* been written.
InitSave == StartUp(PersistedNothing, <<TRUE, FALSE, TRUE, FALSE>>, Conns, TRUE)

NextSave ==
    \/ \E c \in Conns : Accept(c)
    \/ Auth(1, "k1", "none")
    \/ \E c \in Conns \ {1} : Auth(c, "k2", "none")
    \/ ~Saving(1) /\ Disconnect(1)
    \/ \E c \in Conns, m \in BuyMsgs :
          /\ ~Saving(c)
          /\ c = 1 => m.type = "client.move"
          /\ Recv(c, m, "valid", TRUE)
    \/ \E c \in Conns : MoveRate(c)
    \/ \E c \in Conns : MoveApply(c)
    \/ \E c \in Conns \ {1} : Buy(c)
    \/ \E t \in saves : SaveDone(t)

SpecSave == InitSave /\ [][NextSave]_vars

\* --- SpecPay: an empty storage; two new users pay each other, themselves
\* and a user that does not exist, until the dev wallet has collected FeeCap.
\* The handlers that take the write lock wait while a pay holds the read lock.
PayTargets == {"u_1", "u_2", "u_9"}
PayAmounts == {"none", "1", "10", "abc"}
PayMsgs ==
    {[NoMsg EXCEPT !.type = "client.command", !.name = "pay",
                   !.target = t, !.arg = a] :
        t \in PayTargets, a \in PayAmounts}

NextPay ==
    \/ \E c \in Conns : Accept(c)
    \/ ~ReadLockHeld /\ Auth(1, "k1", "none")
    \/ ~ReadLockHeld /\ \E c \in Conns \ {1} : Auth(c, "k2", "none")
    \/ ~ReadLockHeld /\ \E c \in Conns : Disconnect(c)
    \/ /\ Balance(balances, DevWallet) < FeeCap
       /\ \E c \in Conns, m \in PayMsgs : Recv(c, m, "valid", TRUE)
    \/ \E c \in Conns : Pay(c)
    \/ \E c \in Conns : PayFee(c)

SpecPay == InitSession /\ [][NextPay]_vars

\* --- SpecWallet: an empty storage; the first user walks into north:0,
\* buys it, claims a name and pays all it was given to the second, who pays
\* some of it back.
SpenderMsgs ==
    {[NoMsg EXCEPT !.type = "client.move", !.dir = "Up"],
     [NoMsg EXCEPT !.type = "client.command", !.name = "buy"],
     [NoMsg EXCEPT !.type = "client.command", !.name = "claim_name", !.arg = "alice"],
     [NoMsg EXCEPT !.type = "client.command", !.name = "pay",
                   !.target = "u_2", !.arg = "10"]}
DonorMsgs ==
    {[NoMsg EXCEPT !.type = "client.command", !.name = "pay",
                   !.target = "u_1", !.arg = a] : a \in {"1", "6"}}

NextWallet ==
    \/ \E c \in Conns : Accept(c)
    \/ ~ReadLockHeld /\ Auth(1, "k1", "none")
    \/ ~ReadLockHeld /\ \E c \in Conns \ {1} : Auth(c, "k2", "none")
    \/ ~ReadLockHeld /\ \E c \in Conns : Disconnect(c)
    \/ \E m \in SpenderMsgs :
          /\ m.name = "pay" => Balance(balances, DevWallet) < FeeCap
          /\ Recv(1, m, "valid", TRUE)
    \/ /\ Balance(balances, DevWallet) < FeeCap
       /\ \E c \in Conns \ {1}, m \in DonorMsgs : Recv(c, m, "valid", TRUE)
    \/ ~ReadLockHeld /\ MoveRate(1)
    \/ ~ReadLockHeld /\ MoveApply(1)
    \/ ~ReadLockHeld /\ Buy(1)
    \/ ~ReadLockHeld /\ ClaimName(1)
    \/ \E c \in Conns : Pay(c)
    \/ \E c \in Conns : PayFee(c)

SpecWallet == InitSession /\ [][NextWallet]_vars

\* --- SpecFaucet: an empty storage; the first user pays the second 1 XMR
\* or -1 XMR and asks the faucet for -6 XMR, the second asks the faucet for
\* its default.  A pay is accepted while the dev wallet holds less than
\* FeeCap either way, a faucet request while the caller's balance lies
\* between minus and twice the starting balance.
FaucetMsgs ==
    {[NoMsg EXCEPT !.type = "client.command", !.name = "pay",
                   !.target = "u_2", !.arg = a] : a \in {"1", "-1"}}
    \cup {[NoMsg EXCEPT !.type = "client.command", !.name = "faucet", !.arg = "-6"]}
FaucetDefault == [NoMsg EXCEPT !.type = "client.command", !.name = "faucet"]
FaucetOpen(c) ==
    /\ conn[c].st = "live"
    /\ Balance(balances, conn[c].user.pubkey) >= -(START_BALANCE * ATOMS)
    /\ Balance(balances, conn[c].user.pubkey) <= 2 * START_BALANCE * ATOMS

NextFaucet ==
    \/ \E c \in Conns : Accept(c)
    \/ ~ReadLockHeld /\ Auth(1, "k1", "none")
    \/ ~ReadLockHeld /\ \E c \in Conns \ {1} : Auth(c, "k2", "none")
    \/ \E m \in FaucetMsgs :
          /\ m.name = "pay" => /\ Balance(balances, DevWallet) < FeeCap
                               /\ Balance(balances, DevWallet) > -FeeCap
          /\ m.name = "faucet" => FaucetOpen(1)
          /\ Recv(1, m, "valid", TRUE)
    \/ \E c \in Conns \ {1} : FaucetOpen(c) /\ Recv(c, FaucetDefault, "valid", TRUE)
    \/ \E c \in Conns : Pay(c)
    \/ \E c \in Conns : PayFee(c)
    \/ \E c \in Conns : Faucet(c)

SpecFaucet == InitSession /\ [][NextFaucet]_vars

\* --- SpecAlias: an empty storage; two new users claim the name alice or a
\* name that reads like a user id, and pay 1 XMR to u_1, until the dev
\* wallet has collected FeeCap.
AliasMsgs ==
    {[NoMsg EXCEPT !.type = "client.command", !.name = "claim_name", !.arg = a] :
        a \in {"alice", "u_1"}}
    \cup {[NoMsg EXCEPT !.type = "client.command", !.name = "pay",
                        !.target = "u_1", !.arg = "1"]}

NextAlias ==
    \/ \E c \in Conns : Accept(c)
    \/ ~ReadLockHeld /\ Auth(1, "k1", "none")
    \/ ~ReadLockHeld /\ \E c \in Conns \ {1} : Auth(c, "k2", "none")
    \/ ~ReadLockHeld /\ \E c \in Conns : Disconnect(c)
    \/ \E c \in Conns, m \in AliasMsgs :
          /\ m.name = "pay" => Balance(balances, DevWallet) < FeeCap
          /\ Recv(c, m, "valid", TRUE)
    \/ ~ReadLockHeld /\ \E c \in Conns : ClaimName(c)
    \/ \E c \in Conns : Pay(c)
    \/ \E c \in Conns : PayFee(c)

SpecAlias == InitSession /\ [][NextAlias]_vars

\* --- SpecBox: in_box applied both ways round to two street tiles, A in
\* column 10 and B up to BoxSpan columns from it, each in one of the rows
\* BoxRows, with the local-chat box and with the whisper box; the four
\* results are recorded in out.
BoxSpan == 9
BoxRows == {0, 7, 8, STREET_HEIGHT - 1}

BoxApply(ax, ay, bx, by) ==
    /\ out' = <<Msg(0, "in_box",
                    <<ax, ay, bx, by,
                      in_box(ax, ay, bx, by, LOCAL_CHAT_WIDTH, LOCAL_CHAT_HEIGHT),
                      in_box(bx, by, ax, ay, LOCAL_CHAT_WIDTH, LOCAL_CHAT_HEIGHT),
                      in_box(ax, ay, bx, by, WHISPER_WIDTH, WHISPER_HEIGHT),
                      in_box(bx, by, ax, ay, WHISPER_WIDTH, WHISPER_HEIGHT)>>)>>
    /\ ev' = Ev("in_box", 0)
    /\ UNCHANGED <<world, now, train_state_tick, conn, disk, saves>>

NextBox ==
    \E d \in -BoxSpan..BoxSpan, ay \in BoxRows, by \in BoxRows :
        BoxApply(10, ay, 10 + d, by)

SpecBox == InitSession /\ [][NextBox]_vars

\* --- SpecPassed: station_passed applied to every choice of ring positions
\* and direction; the arguments and the result are recorded in out.
PassedApply(prev, next, station, clockwise) ==
    /\ out' = <<Msg(0, "station_passed",
                    <<prev, next, station, clockwise,
                      station_passed(prev, next, station, clockwise)>>)>>
    /\ ev' = Ev("station_passed", 0)
    /\ UNCHANGED <<world, now, train_state_tick, conn, disk, saves>>

NextPassed ==
    \E prev \in 0..MaxRing, next \in 0..MaxRing, station \in 0..MaxRing,
       clockwise \in BOOLEAN : PassedApply(prev, next, station, clockwise)

SpecPassed == InitSession /\ [][NextPassed]_vars

\* --- SpecTile: street_tile looked up at a column x and at the column one
\* circumference further, for the columns around the ring origin and around
\* the east station and for every row; both results are recorded in out.
TileSpan == 8
TileColumns ==
    (-TileSpan..TileSpan) \cup {station_positions[2] + d : d \in -1..1}

TileLookup(x, y) ==
    /\ out' = <<Msg(0, "street_tile", <<x, y, street_tile(x, y)>>),
                Msg(0, "street_tile",
                    <<x + STREET_CIRCUMFERENCE_TILES, y,
                      street_tile(x + STREET_CIRCUMFERENCE_TILES, y)>>)>>
    /\ ev' = Ev("street_tile", 0)
    /\ UNCHANGED <<world, now, train_state_tick, conn, disk, saves>>

NextTile == \E x \in TileColumns, y \in 0..(STREET_HEIGHT - 1) : TileLookup(x, y)

SpecTile == InitSession /\ [][NextTile]_vars

(***************************************************************************)
(* Properties                                                              *)
(***************************************************************************)
Presence(m) ==
    IF m \in DOMAIN connected_users_by_map THEN connected_users_by_map[m] ELSE {}
InSomePresence(cm, u) == \E m \in DOMAIN cm : u \in cm[m]
Sent(c, type, arg) ==
    \E i \in 1..Len(out) : out[i].to = c /\ out[i].type = type /\ out[i].arg = arg

\* C1: every user with a registered session is in the presence set of the
\* map named by its stored position.map_id and in no other presence set.
C1_PresenceMatchesPosition ==
    \A u \in DOMAIN clients :
        /\ u \in Presence(users[u].position.map_id)
        /\ \A m \in DOMAIN connected_users_by_map :
              u \in connected_users_by_map[m] => m = users[u].position.map_id

\* C2: the presence index contains only connected users: a user without a
\* registered session is in no map's presence set.
C2_PresenceOnlyConnected ==
    \A m \in DOMAIN connected_users_by_map :
        connected_users_by_map[m] \subseteq DOMAIN clients

\* C3: at most one connection is Live for a user id; an auth for a user that
\* already has a session is answered already_connected and closed, and the
\* existing session stays registered and stays in the presence index.
C3_OneSessionPerUser ==
    /\ [](\A c1, c2 \in Conns :
            conn[c1].st = "live" /\ conn[c2].st = "live"
            /\ conn[c1].user.user_id = conn[c2].user.user_id => c1 = c2)
    /\ [][\A c \in Conns :
            ev' = Ev("auth_ok", c) => conn'[c].user.user_id \notin DOMAIN clients]_vars
    /\ [][\A c \in Conns :
            ev' = Ev("auth_rejected", c)
            => /\ out' = <<send_error(c, "already_connected")>>
               /\ conn'[c].st = "closed"
               /\ clients' = clients
               /\ connected_users_by_map' = connected_users_by_map]_vars

C3_Witness ==
    /\ ev.op = "auth_rejected"
    /\ \E u \in DOMAIN clients :
          conn[clients[u].tx].st = "live" /\ InSomePresence(connected_users_by_map, u)

\* C4: whenever an authenticated connection ends, its session entry is
\* removed, the user is deleted from the presence index and its
\* BoardingRequest and TrainRide are dropped.
C4_CleanTermination ==
    [][\A c \in Conns :
          conn[c].st = "live" /\ conn'[c].st = "closed"
          => LET u == conn[c].user.user_id
             IN  /\ u \notin DOMAIN clients'
                 /\ ~InSomePresence(connected_users_by_map', u)
                 /\ u \notin DOMAIN boarding'
                 /\ u \notin DOMAIN riders']_vars

\* C5: a message that needs a signature and whose signature is missing or
\* does not verify is answered invalid_signature, changes no world state and
\* leaves the connection open.
C5_BadSignatureDropped ==
    [][\A c \in Conns :
          ev' = Ev("sig_invalid", c) \/ ev' = Ev("sig_error", c)
          => /\ out' = <<send_error(c, "invalid_signature")>>
             /\ conn'[c].st = "live" /\ conn'[c].pc = "read"
             /\ world' = world]_vars

\* C6: every failed authentication (bad challenge signature, undecodable
\* public key, first message not client.auth) is answered auth_failed and
\* the connection is closed; no user, session or presence entry is created.
C6_AuthFailureAnswered ==
    [][\A c \in Conns :
          ev' \in {Ev("auth_bad_challenge", c), Ev("auth_bad_pubkey", c),
                   Ev("auth_wrong_type", c)}
          => /\ out' = <<send_error(c, "auth_failed")>>
             /\ conn'[c].st = "closed"
             /\ users' = users /\ clients' = clients
             /\ connected_users_by_map' = connected_users_by_map]_vars

\* C7: no user has both a BoardingRequest and a TrainRide.
C7_BoardingXorRide == DOMAIN boarding \cap DOMAIN riders = {}

C7_Witness ==
    /\ ev.op = "tick"
    /\ \E u \in DOMAIN riders :
          u \notin DOMAIN boarding /\ u \in DOMAIN clients
          /\ Sent(clients[u].tx, "server.notice", "boarded train")

\* C8: a user with a TrainRide {train_id} is on map train/<train_id>, and a
\* user with a BoardingRequest {station_x} is on map station/<station_x>.
C8_RiderAndBoarderMaps ==
    /\ \A u \in DOMAIN riders :
          users[u].position.map_id = train_map_id(riders[u].train_id)
    /\ \A u \in DOMAIN boarding :
          users[u].position.map_id = station_map_id(boarding[u].station_x)

\* C9: no two distinct users share a display name.
C9_UniqueDisplayNames ==
    \A u, v \in DOMAIN users :
        users[u].display_name # "none" /\ users[u].display_name = users[v].display_name
        => u = v

C9_Witness ==
    /\ ev.op = "claim_taken"
    /\ \E u \in DOMAIN users :
          /\ users[u].display_name \in Names
          /\ u # conn[ev.c].user.user_id

\* C10: a move through a street door puts the user into the room only if, in
\* the state the position is updated in, the mover is the owner, or the mode
\* is open, or whitelist with the mover's key listed, or blacklist with the
\* key not listed; otherwise the reply is room_access_denied and users,
\* presence, rooms, boarding and rides are unchanged.
Listed(room, k) == \E i \in 1..Len(room.access.list) : room.access.list[i] = k
PolicyAdmits(room, k) ==
    \/ room.owner_pubkey = k
    \/ room.access.mode = "open"
    \/ room.access.mode = "whitelist" /\ Listed(room, k)
    \/ room.access.mode = "blacklist" /\ ~Listed(room, k)
DoorStep(c) ==
    /\ conn[c].st = "live" /\ conn[c].pc = "move_apply"
    /\ conn'[c].pc = "read"
    /\ try_move(conn[c].user.position, conn[c].msg.dir).kind = "Transition"
    /\ try_move(conn[c].user.position, conn[c].msg.dir).pos.map_id[1] = "room"
DoorRoom(c) ==
    LET m == try_move(conn[c].user.position, conn[c].msg.dir).pos.map_id
    IN  <<m[2], m[3]>>
C10_DoorAccess ==
    [][\A c \in Conns :
          DoorStep(c)
          => LET u == conn[c].user.user_id
                 rid == DoorRoom(c)
             IN  IF PolicyAdmits(rooms'[rid], users[u].pubkey)
                 THEN users'[u].position.map_id = room_map_id(rid)
                 ELSE /\ out' = <<send_error(c, "room_access_denied")>>
                      /\ users' = users /\ rooms' = rooms
                      /\ connected_users_by_map' = connected_users_by_map
                      /\ boarding' = boarding /\ riders' = riders]_vars

C10_Witness ==
    /\ ev.op = "door_denied"
    /\ rooms[<<"north", 0>>].access.mode = "whitelist"
    /\ rooms[<<"north", 0>>].access.list = <<>>

\* C11: every entry of every room's access list is a signing key, never a
\* display name or a user id, whichever message wrote the list.
C11_AccessListsHoldKeys ==
    \A r \in DOMAIN rooms :
        \A i \in 1..Len(rooms[r].access.list) : rooms[r].access.list[i] \in Keys

\* C12: a room's access policy, display name or door colour changes only in
\* a step that handles a request of that room's owner while the owner stands
\* orthogonally adjacent to the customizer tile of that room.
Customisation(room) == <<room.access, room.display_name, room.door_color>>
AtCustomizerOf(user, r) ==
    /\ user.position.map_id = room_map_id(r)
    /\ Abs(user.position.x - room_customizer_position[1])
         + Abs(user.position.y - room_customizer_position[2]) = 1
C12_OwnerAtCustomizerOnly ==
    [][\A r \in DOMAIN rooms' :
          Customisation(rooms'[r])
            # Customisation(get_or_create_room(rooms, r, RoomPrice))
          => \E c \in Conns :
                /\ ev'.c = c /\ conn[c].st = "live"
                /\ conn[c].user.pubkey
                     = get_or_create_room(rooms, r, RoomPrice).owner_pubkey
                /\ AtCustomizerOf(users[conn[c].user.user_id], r)]_vars

\* C13: a client.move handled less than 60 ms after the user's previous
\* accepted move has no effect (no reply, no position change, no change of
\* the stamp); any other move is stamped with the time it is handled at, so
\* two accepted moves of one user are at least 60 ms apart.
LastStamp(u) == IF u \in DOMAIN last_move_ms THEN last_move_ms[u] ELSE 0
C13_MoveRateLimit ==
    /\ [][\A c \in Conns :
            conn[c].st = "live" /\ conn[c].pc = "move_rate" /\ conn'[c] # conn[c]
            => LET u == conn[c].user.user_id
               IN  IF now - LastStamp(u) < 60
                   THEN out' = <<>> /\ world' = world /\ conn'[c].pc = "read"
                   ELSE u \in DOMAIN last_move_ms' /\ last_move_ms'[u] = now]_vars
    /\ [][\A u \in DOMAIN last_move_ms :
            last_move_ms'[u] # last_move_ms[u]
            => last_move_ms'[u] - last_move_ms[u] >= 60]_vars

C13_Witness ==
    /\ ev.op = "move_dropped"
    /\ LET u == conn[ev.c].user.user_id
       IN  u \in DOMAIN last_move_ms /\ now - last_move_ms[u] \in 1..59

\* C14: a move that passes the rate limit and for which try_move returns
\* Blocked is answered move_blocked and changes no user, no presence set, no
\* boarding request and no ride (nor any room or session).
C14_BlockedMoveFrame ==
    [][\A c \in Conns :
          /\ conn[c].st = "live" /\ conn[c].pc = "move_rate" /\ conn'[c] # conn[c]
          /\ now - LastStamp(conn[c].user.user_id) >= 60
          /\ try_move(conn[c].user.position, conn[c].msg.dir).kind = "Blocked"
          => /\ out' = <<Msg(c, "server.error", "move_blocked")>>
             /\ users' = users
             /\ connected_users_by_map' = connected_users_by_map
             /\ boarding' = boarding /\ riders' = riders
             /\ rooms' = rooms /\ clients' = clients
             /\ conn'[c].user = conn[c].user]_vars

C14_Witness ==
    /\ ev.op = "move_blocked"
    /\ Sent(ev.c, "server.error", "move_blocked")
    /\ users[conn[ev.c].user.user_id].position = Pos(<<"room", "north", 0>>, 1, 2)

\* C15: in the messages one step enqueues, every server.nearby that goes to
\* a session whose user changed map in that step comes after a
\* server.map_change to that session, and when the new map is a room the
\* server.room_info comes between the two.
IsMapChange(msg, c) == msg.to = c /\ msg.type = "server.map_change"
C15_MapChangeBeforeNearby ==
    [][\A c \in Conns :
          \A i \in 1..Len(out') :
             IsMapChange(out'[i], c)
             => /\ \A j \in 1..Len(out') :
                      out'[j].to = c /\ out'[j].type = "server.nearby"
                      => \E k \in 1..(j - 1) : IsMapChange(out'[k], c)
                /\ out'[i].arg[1] = "room"
                   => /\ i < Len(out') /\ out'[i + 1].to = c
                      /\ out'[i + 1].type = "server.room_info"
                      /\ \A j \in 1..Len(out') :
                            out'[j].to = c /\ out'[j].type = "server.nearby"
                            => j > i + 1]_vars

\* A map change into a map of one kind, followed by the refresh of that map.
FollowedByNearby(kind) ==
    \E i \in 1..Len(out) :
        /\ out[i].type = "server.map_change" /\ out[i].arg[1] = kind
        /\ \E j \in (i + 1)..Len(out) :
              out[j].to = out[i].to /\ out[j].type = "server.nearby"
C15_Witness == ev.op = "door_entered" /\ FollowedByNearby("room")

\* C16: for ring positions prev # next, a station and a direction cw,
\* station_passed(prev, next, station, cw) equals
\* station_passed(next, prev, station, ~cw).
C16_PassedSymmetry ==
    ev.op = "station_passed"
    => LET a == out[1].arg
       IN  a[1] # a[2] => a[5] = station_passed(a[2], a[1], a[3], ~a[4])

C16_Witness ==
    /\ ev.op = "station_passed"
    /\ LET a == out[1].arg
       IN  a[1] > a[2] /\ a[4] /\ a[3] < a[2] /\ a[5]

\* The stations of the ring
Stations == {station_positions[i] : i \in 1..4}

\* u has a session and a pending request made at station s, and stands on
\* the map of that station.
WaitingAt(u, s) ==
    /\ u \in DOMAIN clients
    /\ u \in DOMAIN boarding /\ boarding[u].station_x = s
    /\ users[u].position.map_id = station_map_id(s)

\* The trains after k further ticks of dt seconds
TrainsAfter(ts, dt, k) ==
    [i \in 1..Len(ts) |->
        [ts[i] EXCEPT !.x =
            (ts[i].x + ts[i].speed * (IF ts[i].clockwise THEN 1 ELSE -1) * dt * k)
                % STREET_CIRCUMFERENCE_TILES]]

\* The trains whose window of the tick `updates` contains station s
Hits(updates, s) ==
    {i \in 1..Len(updates) :
        station_passed(updates[i].prev, updates[i].next, s, updates[i].clockwise)}

\* Ticks of dt seconds in one loop of a train around the ring
LoopTicks(dt) == STREET_CIRCUMFERENCE_TILES \div (TRAIN_SPEED * dt)

\* Within one loop some tick's window contains station s.
WithinOneLoop(s) ==
    \A dt \in DtLive :
        \E k \in 0..(LoopTicks(dt) - 1) :
            Hits(TrainUpdates(TrainsAfter(trains, dt, k), dt), s) # {}

\* A tick whose windows contain s boards the user who waits at s: onto the
\* first such train, with the notice "boarded train".
BoardedByTick(u, s) ==
    \A dt \in DtLive :
        LET updates == TrainUpdates(trains, dt)
            hits == Hits(updates, s)
            first == CHOOSE i \in hits : \A j \in hits : i <= j
        IN  (WaitingAt(u, s) /\ TrainTick(dt) /\ hits # {})
            => /\ users'[u].position =
                    Pos(train_map_id(updates[first].id),
                        TRAIN_WIDTH \div 2, TRAIN_HEIGHT \div 2)
               /\ u \in DOMAIN riders' /\ riders'[u].train_id = updates[first].id
               /\ u \notin DOMAIN boarding'
               /\ \E i \in 1..Len(out') :
                     /\ out'[i] = send_notice(clients[u].tx, "boarded train")
                     /\ i > 1 /\ IsMapChange(out'[i - 1], clients[u].tx)

\* C17: a connected user who asked to board at station s and stays on the
\* map of s is eventually boarded; some tick within one loop of the trains
\* has s in its window, and the tick whose window contains s moves the user
\* to that train's map and sends it the notice "boarded train".  A pending
\* request of a user who stays ends in no other way.
C17_EventuallyBoarded ==
    /\ [](\A s \in Stations : WithinOneLoop(s))
    /\ [][\A s \in Stations : BoardedByTick("u_1", s)]_vars
    /\ [][\A s \in Stations :
            (WaitingAt("u_1", s) /\ "u_1" \in DOMAIN clients'
                /\ users'["u_1"].position.map_id = station_map_id(s))
            => WaitingAt("u_1", s)']_vars
    /\ \A s \in Stations :
          WaitingAt("u_1", s)
            ~> ("u_1" \in DOMAIN riders \/ "u_1" \notin DOMAIN clients
                \/ users["u_1"].position.map_id # station_map_id(s))

\* A tick boards the waiting user on train 1, which reaches station 0 only
\* after ticks whose windows did not contain the station.
C17_Witness ==
    /\ ev.op = "tick" /\ "u_1" \in DOMAIN riders /\ riders["u_1"].train_id = 1
    /\ Sent(1, "server.notice", "boarded train")

\* u has a TrainRide and stands on the map of the train it names.
RidingTrain(u) ==
    /\ u \in DOMAIN riders
    /\ users[u].position.map_id = train_map_id(riders[u].train_id)

\* The window of this tick of u's own train contains u's destination.
DestinationPassed(u, dt) ==
    LET updates == TrainUpdates(trains, dt)
        own == CHOOSE i \in 1..Len(updates) : updates[i].id = riders[u].train_id
    IN  station_passed(updates[own].prev, updates[own].next,
                       riders[u].destination_x, updates[own].clockwise)

\* u's own train runs clockwise.
OwnTrainClockwise(u) ==
    trains[CHOOSE i \in 1..Len(trains) : trains[i].id = riders[u].train_id].clockwise

\* The tick puts u in the station of its destination, at the tile inside the
\* bottom door (16,14) for a clockwise train and inside the top door (16,1)
\* otherwise, removes the ride and sends map_change and then the notice.
Disembarked(u) ==
    /\ users'[u].position =
          Pos(station_map_id(riders[u].destination_x), 16,
              IF OwnTrainClockwise(u) THEN 14 ELSE 1)
    /\ u \notin DOMAIN riders'
    /\ u \in DOMAIN clients
         => \E i \in 1..Len(out') :
               /\ out'[i] = send_notice(clients[u].tx, "disembarked train")
               /\ i > 1 /\ IsMapChange(out'[i - 1], clients[u].tx)
               /\ out'[i - 1].arg = station_map_id(riders[u].destination_x)

\* C18: a rider with destination d is disembarked by the first tick in which
\* the window of its own train contains d: it is put in station/<d> at (16,14)
\* when the train runs clockwise and at (16,1) when counter-clockwise, its
\* TrainRide is removed and it receives server.map_change and then the notice
\* "disembarked train".  Until that tick a rider that keeps its session keeps
\* its ride and stays on the map of its train.
C18_DisembarkAtDestination ==
    [][/\ \A dt \in DtChoices :
            (RidingTrain("u_1") /\ TrainTick(dt) /\ DestinationPassed("u_1", dt))
            => Disembarked("u_1")
       /\ (/\ RidingTrain("u_1")
           /\ ~ \E dt \in DtChoices : TrainTick(dt) /\ DestinationPassed("u_1", dt)
           /\ "u_1" \in DOMAIN clients')
          => /\ "u_1" \in DOMAIN riders'
             /\ riders'["u_1"].train_id = riders["u_1"].train_id
             /\ users'["u_1"].position.map_id = users["u_1"].position.map_id]_vars

\* The part of C18 that speaks of the tick alone.
C18_TickDisembarks ==
    [][\A dt \in DtChoices :
          (RidingTrain("u_1") /\ TrainTick(dt))
          => IF DestinationPassed("u_1", dt) THEN Disembarked("u_1")
             ELSE /\ "u_1" \in DOMAIN riders' /\ riders'["u_1"] = riders["u_1"]
                  /\ users'["u_1"] = users["u_1"]]_vars

\* The step in which connection c's task runs handle_chat
ChatStep(c) ==
    /\ conn[c].st = "live" /\ conn[c].pc = "chat"
    /\ conn'[c].st = "live" /\ conn'[c].pc = "read"

\* The server.chat envelopes enqueued by the step, and the connections that
\* get one
ChatCopies == {i \in 1..Len(out') : out'[i].type = "server.chat"}
ChatGot == {out'[i].to : i \in ChatCopies}

SameMap(u, v) == users[u].position.map_id = users[v].position.map_id
OffsetX(u, v) == Abs(users[v].position.x - users[u].position.x)
OffsetY(u, v) == Abs(users[v].position.y - users[u].position.y)

\* C19: a whisper is forwarded only if it carries enc with a sender_key and
\* its target names a connected user that is in the caller's map at most 2
\* tiles away on each axis; it then goes to the caller and that user, one
\* copy each, and to nobody else; a user 3 or more tiles away on an axis gets
\* nothing.
C19_WhisperDelivery ==
    [][\A c \in Conns :
          (ChatStep(c) /\ conn[c].msg.scope = "whisper")
          => LET caller == conn[c].user.user_id
                 m == conn[c].msg
             IN  /\ ChatGot # {}
                     => /\ m.enc = "keyed"
                        /\ \E t \in DOMAIN clients :
                              /\ t = m.target \/ users[t].display_name = m.target
                              /\ SameMap(caller, t)
                              /\ OffsetX(caller, t) <= 2 /\ OffsetY(caller, t) <= 2
                              /\ ChatGot = {clients[caller].tx, clients[t].tx}
                        /\ Cardinality(ChatCopies) = Cardinality(ChatGot)
                 /\ \A t \in DOMAIN clients \ {caller} :
                        (OffsetX(caller, t) >= 3 \/ OffsetY(caller, t) >= 3)
                        => clients[t].tx \notin ChatGot]_vars

\* The connected users a local chat of u is for: those in u's map, on the
\* street only those inside the 16x16 box around u.
LocalAudience(u) ==
    {v \in DOMAIN clients :
        /\ SameMap(u, v)
        /\ users[u].position.map_id = <<"street">>
            => in_box(users[u].position.x, users[u].position.y,
                      users[v].position.x, users[v].position.y, 16, 16)}

\* C20: a local chat that is forwarded goes to exactly the connected users
\* in the sender's map, on the street to those of them inside the 16x16 box
\* of the sender; a user who is in another map than the sender when the
\* message is forwarded does not get it.
C20_LocalDelivery ==
    [][\A c \in Conns :
          (ChatStep(c) /\ conn[c].msg.scope \in {"none", "local"})
          => LET sender == conn[c].user.user_id
             IN  /\ \A v \in DOMAIN clients :
                        ~SameMap(sender, v) => clients[v].tx \notin ChatGot
                 /\ (\A i \in 1..Len(out') : out'[i].type # "server.error")
                     => ChatGot = {clients[v].tx : v \in LocalAudience(sender)}]_vars

\* u stands on the street.
OnStreet(u) == users[u].position.map_id = <<"street">>

\* C21: every server.chat whose sender is off the street carries enc; a
\* room-scope chat sent from the street and a local chat sent from the street
\* with enc are not forwarded and are answered with invalid_command.
C21_ChatEncryptionPolicy ==
    [][\A c \in Conns :
          ChatStep(c)
          => LET sender == conn[c].user.user_id
                 m == conn[c].msg
                 rejected == /\ ChatCopies = {}
                             /\ out' = <<send_error(c, "invalid_command")>>
             IN  /\ \A i \in ChatCopies :
                        /\ out'[i].arg[1] = sender
                        /\ ~OnStreet(sender) => out'[i].arg[3] # "none"
                 /\ (OnStreet(sender) /\ m.scope = "room") => rejected
                 /\ (OnStreet(sender) /\ m.scope \in {"none", "local"}
                        /\ m.enc # "none") => rejected]_vars

\* A local chat sent with enc from a station has just been forwarded to the
\* two users there.
C21_Witness ==
    /\ ev.op = "chat_sent" /\ Len(out) = 2
    /\ \A i \in 1..2 : out[i].type = "server.chat" /\ out[i].arg = <<"u_1", "local", "keyed">>
    /\ ~OnStreet("u_1")

\* The connections that get a server.room_key in this step
RoomKeyGot == {out'[i].to : i \in {j \in 1..Len(out') : out'[j].type = "server.room_key"}}

\* C22: a client.room_key is forwarded only when the sender is in a room,
\* room_id names that room, sender_key, nonce and ciphertext are non-empty
\* and the target is a connected user in that room; the one server.room_key
\* goes to the target's session, and the sender and every other user get
\* nothing.
C22_RoomKeyDelivery ==
    [][\A c \in KeyConns :
          (conn[c].st = "live" /\ conn[c].pc = "room_key" /\ conn'[c].pc = "read")
          => LET sender == conn[c].user.user_id
                 m == conn[c].msg
             IN  /\ RoomKeyGot # {}
                     => /\ users[sender].position.map_id = room_map_id(m.room_id)
                        /\ m.blank = "none"
                        /\ m.target \in DOMAIN clients
                        /\ users[m.target].position.map_id = room_map_id(m.room_id)
                        /\ out' = <<Msg(clients[m.target].tx, "server.room_key",
                                        <<m.room_id, sender>>)>>
                 /\ \A u \in DOMAIN clients :
                        (u = sender \/ u # m.target) => clients[u].tx \notin RoomKeyGot]_vars

\* C22 as amended: a client.room_key is forwarded only when the sender is in
\* a room, room_id names that room, the three strings are non-empty and the
\* target is a connected user in that room; the one server.room_key goes to
\* the target's session and every user other than the target gets nothing,
\* the sender too unless it names itself as the target.
C22_RoomKeyToTargetOnly ==
    [][\A c \in KeyConns :
          (conn[c].st = "live" /\ conn[c].pc = "room_key" /\ conn'[c].pc = "read")
          => LET sender == conn[c].user.user_id
                 m == conn[c].msg
             IN  /\ RoomKeyGot # {}
                     => /\ users[sender].position.map_id = room_map_id(m.room_id)
                        /\ m.blank = "none"
                        /\ m.target \in DOMAIN clients
                        /\ users[m.target].position.map_id = room_map_id(m.room_id)
                        /\ out' = <<Msg(clients[m.target].tx, "server.room_key",
                                        <<m.room_id, sender>>)>>
                 /\ \A u \in DOMAIN clients :
                        u # m.target => clients[u].tx \notin RoomKeyGot]_vars

\* u_1 has sent a key to u_2 while all three users were connected in the
\* room: the one envelope is on u_2's connection.
C22_Witness ==
    /\ ev.op = "room_key_sent" /\ Len(out) = 1
    /\ out[1].type = "server.room_key" /\ out[1].to = 2
    /\ DOMAIN clients = {"u_1", "u_2", "u_3"}
    /\ \A u \in DOMAIN clients : users[u].position.map_id = <<"room", "north", 0>>

BuyStep(c) ==
    /\ conn[c].st = "live" /\ conn[c].pc = "buy"
    /\ conn'[c].pc = "read" /\ ev'.c = c
    /\ ev'.op \in {"buy", "buy_not_in_room", "buy_not_for_sale", "buy_unpaid",
                   "buy_fee_unpaid"}
Caller(c) == users[conn[c].user.user_id]
CallerRoom(c) ==
    get_or_create_room(rooms, RoomOf(Caller(c)), RoomPrice)
InRoom(u) == parse_room_map_id(u.position.map_id) # <<>>

\* C24: a buy succeeds only for a caller standing in a room that is for
\* sale, and then makes the caller the owner and clears for_sale; a buy of a
\* room that is no longer for sale, as the second of two concurrent buys
\* finds it, is rejected with invalid_command and moves no money, while a
\* buy of a room for sale by a caller who can pay succeeds.
C24_BuyOnce ==
    [][\A c \in DOMAIN conn :
          BuyStep(c) =>
            /\ ev'.op = "buy" =>
                  /\ InRoom(Caller(c))
                  /\ CallerRoom(c).for_sale
                  /\ rooms'[RoomOf(Caller(c))].owner_pubkey = Caller(c).pubkey
                  /\ ~rooms'[RoomOf(Caller(c))].for_sale
            /\ InRoom(Caller(c)) /\ ~CallerRoom(c).for_sale =>
                  /\ ev'.op = "buy_not_for_sale"
                  /\ out' = <<send_error(c, "invalid_command")>>
                  /\ balances' = balances
                  /\ rooms' = rooms
            /\ /\ InRoom(Caller(c)) /\ CallerRoom(c).for_sale
               /\ Balance(balances, Caller(c).pubkey)
                    >= RoomPrice * ATOMS + (RoomPrice * ATOMS * FeeBps) \div 10000
               => ev'.op = "buy"]_vars

\* One of two sessions with a buy of the same room in progress has just
\* bought it.
C24_Witness ==
    /\ ev.op = "buy"
    /\ \E d \in DOMAIN conn :
          /\ d # ev.c /\ conn[d].st = "live" /\ conn[d].pc = "buy"
          /\ conn[d].user.position.map_id = conn[ev.c].user.position.map_id

\* What the caller of the handler running on c holds, and the dev fee on an
\* amount as the configuration defines it.
Funds(c) == Balance(balances, Caller(c).pubkey)
FeeOn(amount) == (amount * FeeBps) \div 10000
\* The debits of amount and then of the fee on it cannot both be made.
CannotPay(c, amount) == Funds(c) < amount \/ Funds(c) - amount < FeeOn(amount)
OnlyError(c, code) == out' = <<send_error(c, code)>>
HandlerEnds(c, pcs) ==
    /\ conn[c].st = "live" /\ conn[c].pc \in pcs
    /\ conn'[c].pc = "read" /\ ev'.c = c

\* C25: when a debit of buy, pay or claim_name fails, the handler ends with
\* server.error insufficient_funds as its only output (no tx_update, no
\* room_info, no notice) and the room's owner and for_sale flag and the
\* caller's display name are as before.
C25_DebitFailureStops ==
    [][\A c \in DOMAIN conn :
          /\ /\ HandlerEnds(c, {"buy"})
             /\ InRoom(Caller(c)) /\ CallerRoom(c).for_sale
             /\ CannotPay(c, CallerRoom(c).price_xmr * ATOMS)
             => /\ OnlyError(c, "insufficient_funds")
                /\ rooms'[RoomOf(Caller(c))].owner_pubkey = CallerRoom(c).owner_pubkey
                /\ rooms'[RoomOf(Caller(c))].for_sale
                /\ users' = users
          /\ /\ HandlerEnds(c, {"claim_name"})
             /\ conn[c].msg.arg # "none"
             /\ \A u \in DOMAIN users : users[u].display_name # conn[c].msg.arg
             /\ CannotPay(c, UsernameFee * ATOMS)
             => /\ OnlyError(c, "insufficient_funds")
                /\ users' = users
                /\ conn'[c].user.display_name = conn[c].user.display_name
                /\ rooms' = rooms
          /\ /\ conn[c].st = "live" /\ conn[c].pc = "pay"
             /\ conn'[c] # conn[c] /\ ev'.c = c
             /\ conn[c].msg.target # "none" /\ conn[c].msg.arg # "none"
             /\ PayRecipients(users, conn[c].msg.target) # {}
             /\ Funds(c) < ParseF64(conn[c].msg.arg)
             => /\ conn'[c].pc = "read"
                /\ OnlyError(c, "insufficient_funds")
                /\ balances' = balances
                /\ users' = users /\ rooms' = rooms
          /\ /\ HandlerEnds(c, {"pay_fee"})
             /\ Funds(c) < FeeOn(ParseF64(conn[c].msg.arg))
             => /\ OnlyError(c, "insufficient_funds")
                /\ balances' = balances
                /\ users' = users /\ rooms' = rooms]_vars

\* The price of a room was debited, the fee on it could not be, and the room
\* is still for sale with no owner.
C25_Witness ==
    /\ ev.op = "buy_fee_unpaid"
    /\ out = <<send_error(ev.c, "insufficient_funds")>>
    /\ \E r \in DOMAIN rooms : rooms[r].for_sale /\ rooms[r].owner_pubkey = "none"

\* The two wallet transfers of a pay that succeeds, on connection c: the
\* amount goes out in the step that leaves the handler at its second
\* transfer, the fee in the step that ends it.
AmountSent(c) ==
    /\ conn[c].st = "live" /\ conn[c].pc = "pay" /\ conn'[c].pc = "pay_fee"
FeeSent(c) ==
    /\ conn[c].st = "live" /\ conn[c].pc = "pay_fee"
    /\ ev'.c = c /\ ev'.op = "pay"
Payer(c) == Caller(c).pubkey
Recipient(c) == users[conn'[c].msg.target].pubkey
PaidAmount(c) == ParseF64(conn[c].msg.arg)
OthersKeep(ks) ==
    \A k \in (DOMAIN balances \cup DOMAIN balances') \ ks :
        Balance(balances', k) = Balance(balances, k)
FeeTransfer(c) ==
    /\ Balance(balances', Payer(c)) = Funds(c) - FeeOn(PaidAmount(c))
    /\ Balance(balances', DevWallet)
         = Balance(balances, DevWallet) + FeeOn(PaidAmount(c))
    /\ OthersKeep({Payer(c), DevWallet})
    /\ \E i \in 1..Len(out') : out'[i] = Msg(c, "server.tx_update", <<"pending", 0>>)

ErrorSentTo(c) ==
    \E i \in 1..Len(out) : out[i].to = c /\ out[i].type = "server.error"

\* C27: a message that fails validation on a live session (its payload does
\* not decode, its type or command name is unknown, its move is blocked) is
\* answered with server.error and the session stays open, reading on.
C27_ValidationAnswered ==
    /\ ev.op \in {"payload_error", "move_blocked"}
          => /\ conn[ev.c].st = "live" /\ conn[ev.c].pc = "read"
             /\ ErrorSentTo(ev.c)
    /\ /\ ev.op = "recv" /\ conn[ev.c].pc = "read"
       /\ \A i \in 1..Len(out) : out[i].type # "server.notice"
       => conn[ev.c].st = "live" /\ ErrorSentTo(ev.c)

\* The step in which the task of connection c finishes with a message: the
\* last step of a handler, or the dispatch itself when it answers at once.
Handled(c) ==
    /\ conn[c].st = "live" /\ conn'[c].st = "live"
    /\ conn'[c].pc = "read" /\ ev'.c = c
    /\ conn[c].pc # "read" \/ ev'.op = "recv"
\* A step inside a handler that has more to do.
MidHandler(c) ==
    /\ conn[c].st = "live" /\ conn[c].pc # "read"
    /\ conn'[c].pc # "read" /\ conn'[c] # conn[c]
SuccessTypes ==
    {"server.state", "server.map_change", "server.tx_update", "server.room_info",
     "server.chat", "server.room_key"}
SuccessReply == \E i \in 1..Len(out') : out'[i].type \in SuccessTypes
ErrorOrNotice(c) ==
    \E i \in 1..Len(out') :
        out'[i].to = c /\ out'[i].type \in {"server.error", "server.notice"}

AuthOk(c) == conn[c].st = "preauth" /\ ev'.c = c /\ ev'.op = "auth_ok"
AuthKey(c) == conn'[c].user.pubkey
NewKey(k) == k \notin DOMAIN users_by_pubkey

\* Every key names one user, that user carries the key, no two keys name
\* the same user, and every id in use lies below the next id to give out.
OneUserPerKey ==
    /\ \A k \in DOMAIN users_by_pubkey :
          /\ users_by_pubkey[k] \in DOMAIN users
          /\ users[users_by_pubkey[k]].pubkey = k
    /\ \A u \in DOMAIN users :
          /\ users[u].user_id = u
          /\ users[u].pubkey \in DOMAIN users_by_pubkey
          /\ users_by_pubkey[users[u].pubkey] = u
          /\ IdNum(u) < next_user_id

\* C29: each key maps to one user id for good and ids are not reused; the
\* auth that succeeds with a new key creates the user under a fresh id at
\* street (0,1) and credits the starting balance; an auth with a known key
\* finds the same user at its stored position, and credits nothing; nothing
\* else creates a user.
C29_FindOrCreate ==
    /\ []OneUserPerKey
    /\ [][/\ \A k \in DOMAIN users_by_pubkey :
               k \in DOMAIN users_by_pubkey'
               /\ users_by_pubkey'[k] = users_by_pubkey[k]
          /\ DOMAIN users \subseteq DOMAIN users'
          /\ \A c \in DOMAIN conn :
               AuthOk(c) =>
                 IF NewKey(AuthKey(c))
                 THEN /\ conn'[c].user.user_id = UserId(next_user_id)
                      /\ conn'[c].user.user_id \notin DOMAIN users
                      /\ DOMAIN users' = DOMAIN users \cup {conn'[c].user.user_id}
                      /\ conn'[c].user.position = Pos(<<"street">>, 0, 1)
                      /\ users'[conn'[c].user.user_id].position = Pos(<<"street">>, 0, 1)
                      /\ Balance(balances', AuthKey(c))
                           = Balance(balances, AuthKey(c)) + START_BALANCE * ATOMS
                 ELSE /\ conn'[c].user.user_id = users_by_pubkey[AuthKey(c)]
                      /\ conn'[c].user.position
                           = users[users_by_pubkey[AuthKey(c)]].position
                      /\ DOMAIN users' = DOMAIN users
                      /\ balances' = balances
          /\ (\A c \in DOMAIN conn : ~AuthOk(c))
               => /\ DOMAIN users' = DOMAIN users
                  /\ users_by_pubkey' = users_by_pubkey
                  /\ balances' = balances]_vars

\* A user has come back: it authenticated with its key again, is found
\* where it had walked to, and holds the starting balance once.
C29_Witness ==
    /\ ev.op = "auth_ok"
    /\ conn[ev.c].user.position # Pos(<<"street">>, 0, 1)
    /\ Balance(balances, conn[ev.c].user.pubkey) = START_BALANCE * ATOMS
    /\ Cardinality(DOMAIN users) = 2

\* The indices of the trains that passed station s in the tick just taken,
\* and whether user u is due to board in it.
PassedBy(s) ==
    {i \in 1..Len(trains) :
        station_passed(trains[i].x, trains'[i].x, s, trains[i].clockwise)}
Boards(u) ==
    /\ u \in DOMAIN boarding /\ u \notin DOMAIN riders /\ u \in DOMAIN users
    /\ parse_station_map_id(users[u].position.map_id) = boarding[u].station_x
    /\ PassedBy(boarding[u].station_x) # {}
FirstTrain(u) ==
    LET hits == PassedBy(boarding[u].station_x)
    IN  trains[CHOOSE i \in hits : \A j \in hits : i <= j]
TrainEntries(u) ==
    {i \in 1..Len(out') :
        /\ out'[i].type = "server.map_change" /\ u \in DOMAIN clients
        /\ out'[i].to = clients[u].tx /\ parse_train_map_id(out'[i].arg) # -1}

\* C30: in the tick in which a train passes the station of a waiting user,
\* the user is put on one train, the first in the order of the train list
\* that passed: its request is gone, and unless the same tick also carries
\* that train past the destination the user stands at the centre of the
\* train's map, rides it to the destination it asked for, and has moved
\* from the station's to the train's entry of the presence index.  A user
\* not due to board in the tick is put on no train.
C30_AtomicBoarding ==
    [][ev'.op = "tick" =>
         \A u \in DOMAIN boarding :
            IF Boards(u)
            THEN LET t == FirstTrain(u)
                     m == train_map_id(t.id)
                     d == boarding[u].destination_x
                 IN  /\ u \notin DOMAIN boarding'
                     /\ u \in DOMAIN clients =>
                           /\ Cardinality(TrainEntries(u)) = 1
                           /\ \A i \in TrainEntries(u) : out'[i].arg = m
                     /\ ~station_passed(t.x, trains'[t.id + 1].x, d, t.clockwise) =>
                           /\ users'[u].position
                                = Pos(m, TRAIN_WIDTH \div 2, TRAIN_HEIGHT \div 2)
                           /\ riders'[u] = [train_id |-> t.id, destination_x |-> d]
                           /\ u \in connected_users_by_map'[m]
                           /\ LET s == station_map_id(boarding[u].station_x)
                              IN  s \in DOMAIN connected_users_by_map'
                                    => u \notin connected_users_by_map'[s]
            ELSE /\ TrainEntries(u) = {}
                 /\ u \notin DOMAIN riders => u \notin DOMAIN riders']_vars

\* The user has just boarded train 0 at station 0 in a tick in which train 1
\* arrived there too.
C30_Witness ==
    /\ ev.op = "tick"
    /\ "u_1" \in DOMAIN riders /\ riders["u_1"].train_id = 0
    /\ trains[2].x = 0 /\ trains[1].x = 1024
    /\ \E i \in 1..Len(out) :
          out[i].type = "server.notice" /\ out[i].arg = "boarded train"

\* User u stands on the station its request names.
AtRequestStation(u) ==
    /\ u \in DOMAIN users
    /\ parse_station_map_id(users[u].position.map_id) = boarding[u].station_x
OnStation(us, u) == u \in DOMAIN us /\ us[u].position.map_id[1] = "station"

\* C31: the step of handle_move that takes a user from a station to a map
\* that is not a station leaves no BoardingRequest of that user; a tick that
\* finds a request whose user is not on the station it names removes the
\* request and puts the user on no train; so whoever a tick puts on a train
\* stood on the station of its request.
C31_RequestEndsWithStation ==
    [][/\ \A c \in DOMAIN conn :
            LET u == conn[c].user.user_id
            IN  /\ conn[c].st = "live" /\ conn[c].pc = "move_apply" /\ ev'.c = c
                /\ ev'.op \in {"transition", "door_entered"}
                /\ OnStation(users, u) /\ ~OnStation(users', u)
                => u \notin DOMAIN boarding'
       /\ ev'.op = "tick" =>
            \A u \in DOMAIN boarding :
                /\ ~AtRequestStation(u) =>
                      /\ u \notin DOMAIN boarding'
                      /\ TrainEntries(u) = {}
                      /\ u \notin DOMAIN riders => u \notin DOMAIN riders'
                      /\ u \in DOMAIN users => users'[u].position = users[u].position
                /\ TrainEntries(u) # {} => AtRequestStation(u)]_vars

\* A request names station 0 while its user stands elsewhere.
C31_Witness ==
    /\ "u_1" \in DOMAIN boarding
    /\ parse_station_map_id(users["u_1"].position.map_id) # boarding["u_1"].station_x

\* The messages of sequence o enqueued on connection c, in order.
Enqueued(o, c) == SelectSeq(o, LAMBDA m : m.to = c)
TypesOf(o) == [i \in 1..Len(o) |-> o[i].type]
\* Connection c is the sender of a registered session (live, or left
\* registered by a handler that returned early).
Registered(c) == \E u \in DOMAIN clients : clients[u].tx = c
IsPrefix(p, o) == Len(p) <= Len(o) /\ \A i \in 1..Len(p) : p[i] = o[i]

\* C32: a connection that is not open receives nothing but the server.hello
\* of its own accept; a connection that has not authenticated receives
\* nothing, or one server.error, or, in the step of its own successful auth,
\* server.welcome and then server.train_state before anything else; so
\* every outbound order reads hello, welcome, train_state, and no nearby,
\* chat, room_key or train_state broadcast precedes the welcome.
C32_OutboundOrder ==
    [][\A c \in DOMAIN conn :
         LET s == Enqueued(out', c)
         IN  /\ conn[c].st = "closed" /\ ~Registered(c) =>
                   \/ s = <<>>
                   \/ /\ ev' = Ev("accept", c)
                      /\ TypesOf(s) = <<"server.hello">>
                      /\ conn'[c].st = "preauth"
             /\ conn[c].st = "preauth" =>
                   \/ s = <<>>
                   \/ TypesOf(s) = <<"server.error">> /\ conn'[c].st = "closed"
                   \/ /\ ev' = Ev("auth_ok", c)
                      /\ conn'[c].st = "live"
                      /\ IsPrefix(<<"server.welcome", "server.train_state">>, TypesOf(s))
             /\ conn[c].st # "live" /\ conn'[c].st = "live" =>
                   /\ conn[c].st = "preauth"
                   /\ IsPrefix(<<"server.welcome", "server.train_state">>, TypesOf(s))]_vars

\* A tick broadcasts server.train_state while another connection has been
\* greeted and has not authenticated.
C32_Witness ==
    /\ ev.op = "tick"
    /\ \E i \in 1..Len(out) : out[i].type = "server.train_state"
    /\ \E c \in DOMAIN conn : conn[c].st = "preauth" /\ Enqueued(out, c) = <<>>

\* C33: the tile street_tile gives for a column equals the tile it gives
\* for the column one circumference (4096) further, in every row.
C33_TileWraps ==
    ev.op = "street_tile" => out[1].arg[3] = out[2].arg[3]

\* The step ends a buy, pay or claim_name of connection c with a
\* server.error insufficient_funds or wallet_error.
EndsUnpaid(c) ==
    /\ HandlerEnds(c, {"buy", "pay", "pay_fee", "claim_name"})
    /\ \E i \in 1..Len(out') :
          /\ out'[i].to = c /\ out'[i].type = "server.error"
          /\ out'[i].arg \in {"insufficient_funds", "wallet_error"}

\* C34: a buy, pay or claim_name that ends with insufficient_funds or
\* wallet_error has moved no money: the step that sends the error changes
\* no balance, and a pay that fails at its fee has sent no amount to
\* another user before.
C34_AllOrNothing ==
    [][\A c \in DOMAIN conn :
         EndsUnpaid(c) =>
            /\ balances' = balances
            /\ conn[c].pc = "pay_fee" =>
                  \/ PaidAmount(c) = 0
                  \/ users[conn[c].msg.target].pubkey = Payer(c)]_vars

\* C35: no wallet balance is ever negative, and no step of a pay lowers
\* the recipient's balance or raises the payer's.
C35_BalancesNonNegative ==
    /\ [](\A k \in DOMAIN balances : balances[k] >= 0)
    /\ [][\A c \in DOMAIN conn :
            AmountSent(c) =>
               /\ Balance(balances', Recipient(c)) >= Balance(balances, Recipient(c))
               /\ Balance(balances', Payer(c)) <= Funds(c)]_vars
    /\ [][\A c \in DOMAIN conn :
            FeeSent(c) => Balance(balances', Payer(c)) <= Funds(c)]_vars

\* C36: every connected user whose stored position is on a train map
\* train/<id> has a TrainRide for train <id>.
C36_OnTrainHasRide ==
    \A u \in DOMAIN clients :
        LET id == parse_train_map_id(users[u].position.map_id)
        IN  id # -1 => u \in DOMAIN riders /\ riders[u].train_id = id

\* C37: when no save is in flight, rooms.json holds the rooms collection
\* of memory (in SpecSave every change of rooms starts a save, so memory is
\* as it was at the most recent of them).
C37_DiskConverges ==
    saves = {} => disk.rooms = rooms

\* C38: no user's display name is another user's identifier, and a pay
\* whose target is the identifier of a user sends the amount to that user.
C38_TargetUnambiguous ==
    /\ [](\A u, v \in DOMAIN users : u # v => users[u].display_name # v)
    /\ [][\A c \in DOMAIN conn :
            AmountSent(c) /\ conn[c].msg.target \in DOMAIN users
            => conn'[c].msg.target = conn[c].msg.target]_vars

Rejected == ev'.op = "auth_rejected"

\* C39: an auth rejected with already_connected changes nothing of the
\* world state: users, sessions, presence index, boarding requests and
\* rides are as before.
C39_RejectionChangesNothing ==
    [][Rejected => UNCHANGED <<users, clients, connected_users_by_map,
                               boarding, riders>>]_vars

\* C39 as amended: a rejected auth changes nothing of the world state
\* except the stored x25519_pubkey of the user it names, which becomes the
\* key the auth offers when it offers one.
C39_RejectionWritesKeyOnly ==
    [][Rejected =>
         /\ UNCHANGED <<next_user_id, users_by_pubkey, rooms, clients,
                        connected_users_by_map, trains, boarding, riders,
                        last_move_ms, balances>>
         /\ \E u \in DOMAIN clients, x \in X25519Inputs :
               users' = IF x = "none" THEN users
                        ELSE [users EXCEPT ![u].x25519_pubkey = x]]_vars

\* An auth was rejected and the stored key of a live user is no longer the
\* one its session began with.
C39_Witness ==
    /\ ev.op = "auth_rejected"
    /\ \E c \in DOMAIN conn :
          /\ conn[c].st = "live"
          /\ users[conn[c].user.user_id].x25519_pubkey # conn[c].user.x25519_pubkey

\* The last in_box lookup: A, B and the four results.
BoxA == <<out[1].arg[1], out[1].arg[2]>>
BoxB == <<out[1].arg[3], out[1].arg[4]>>
LocalAB == out[1].arg[5]
LocalBA == out[1].arg[6]
WhisperAB == out[1].arg[7]
WhisperBA == out[1].arg[8]

\* C40: B is inside A's 16x16 box exactly when A is inside B's, and the
\* same for the 5x5 box.
C40_BoxSymmetric ==
    ev.op = "in_box" => (LocalAB <=> LocalBA) /\ (WhisperAB <=> WhisperBA)

\* C40 as amended: the 5x5 box is symmetric; B is inside A's 16x16 box
\* exactly when B is at most 8 columns and rows before A and at most 7
\* after it, so the 16x16 box is symmetric for two users less than 8
\* columns and rows apart.
C40_BoxSymmetricWithin ==
    ev.op = "in_box" =>
        LET dx == BoxB[1] - BoxA[1]
            dy == BoxB[2] - BoxA[2]
        IN  /\ WhisperAB <=> WhisperBA
            /\ LocalAB <=> (dx \in -8..7 /\ dy \in -8..7)
            /\ LocalBA <=> (dx \in -7..8 /\ dy \in -7..8)
            /\ dx \in -7..7 /\ dy \in -7..7 => LocalAB /\ LocalBA

\* B stands 7 columns after A: each is inside the other's 16x16 box.
C40_Witness ==
    /\ ev.op = "in_box"
    /\ BoxB[1] - BoxA[1] = 7
    /\ LocalAB /\ LocalBA

====
